---- MODULE Spec2Model ----
(***************************************************************************)
(* Panasonic Blu-ray integration: the device client (api.py), the poll     *)
(* coordinator (coordinator.py) and the entities that project the          *)
(* published mapping (media_player.py, remote.py, switch.py).              *)
(*                                                                         *)
(* Python values are modelled as follows.                                  *)
(*   str            a sequence of one-character strings                    *)
(*   Optional[T]    None is the empty tuple, a present value v is <<v>>    *)
(*   dict           a function from key names to values                    *)
(*   Enum member    its member name                                        *)
(*                                                                         *)
(* Spec is the integration at work: poll cycles, the entities, time.       *)
(* SpecApi is the client and the coordinator with every exchange with the  *)
(* device recorded in wire. SpecPure applies one function of the client to *)
(* one input.                                                              *)
(***************************************************************************)
EXTENDS Integers, Sequences, FiniteSets, TLC

VARIABLES pc, pst_result, status_result, status, data, replaced_keys,
          last_update_success, outcome, now, entities_added,
          _attr_state, _attr_media_position,
          _attr_media_position_updated_at, _attr_media_duration,
          last_command, timer, in_flight, recording, wire, cmd_ret, call,
          options, update_interval, reload_pending, flow_result,
          remote_call, flow_user_input, user_result, validate_info, entries

vars == <<pc, pst_result, status_result, status, data, replaced_keys,
          last_update_success, outcome, now, entities_added,
          _attr_state, _attr_media_position,
          _attr_media_position_updated_at, _attr_media_duration,
          last_command, timer, in_flight, recording, wire, cmd_ret, call,
          options, update_interval, reload_pending, flow_result,
          remote_call, flow_user_input, user_result, validate_info, entries>>

(* Largest wall-clock reading utcnow() returns in a checked behaviour. *)
MaxTime == 1

(* Most POSTs a recorded behaviour holds. *)
MaxWire == 3

(* Most poll cycles counted in flight at once. *)
MaxInFlight == 2

(* How far beyond the accepted range the submitted intervals reach. *)
MaxSlack == 2

(* Largest speed value, either sign, a mapping shown to the speed *)
(* projections holds.                                             *)
MaxSpeed == 30

(* Most commands the speed select is seen to send. *)
MaxSelects == 2

(* Longest command list, and most repeats, the remote is asked for. *)
MaxCommands == 2
MaxRepeats == 2

None == <<>>
Some(v) == <<v>>
Val(o) == o[1]

-----------------------------------------------------------------------------
(* Python str operations, on sequences of characters. *)

ascii_lowercase ==
  <<"a","b","c","d","e","f","g","h","i","j","k","l","m","n","o","p","q","r","s","t","u","v","w","x","y","z">>

ascii_uppercase ==
  <<"A","B","C","D","E","F","G","H","I","J","K","L","M","N","O","P","Q","R","S","T","U","V","W","X","Y","Z">>

(* str.upper(), on the characters the commands are written in *)
upper(s) ==
  [i \in 1..Len(s) |->
     IF \E n \in 1..26 : ascii_lowercase[n] = s[i]
     THEN ascii_uppercase[CHOOSE n \in 1..26 : ascii_lowercase[n] = s[i]]
     ELSE s[i]]

(* str.lower(), to write a command in lower case *)
lower(s) ==
  [i \in 1..Len(s) |->
     IF \E n \in 1..26 : ascii_uppercase[n] = s[i]
     THEN ascii_lowercase[CHOOSE n \in 1..26 : ascii_uppercase[n] = s[i]]
     ELSE s[i]]

startswith(s, prefix) ==
  /\ Len(s) >= Len(prefix)
  /\ SubSeq(s, 1, Len(prefix)) = prefix

Whitespace == {" ", "\t", "\n", "\r", "\f"}
Digits == {"0", "1", "2", "3", "4", "5", "6", "7", "8", "9"}

DigitVal(c) ==
  CASE c = "0" -> 0 [] c = "1" -> 1 [] c = "2" -> 2 [] c = "3" -> 3
    [] c = "4" -> 4 [] c = "5" -> 5 [] c = "6" -> 6 [] c = "7" -> 7
    [] c = "8" -> 8 [] c = "9" -> 9

(* sep occurs in s at index i *)
OccursAt(s, sep, i) ==
  /\ i + Len(sep) - 1 <= Len(s)
  /\ \A j \in 1..Len(sep) : s[i + j - 1] = sep[j]

(* str.find from index i on, 1-based; 0 when sep does not occur *)
RECURSIVE FindFrom(_, _, _)
FindFrom(s, sep, i) ==
  IF i + Len(sep) - 1 > Len(s) THEN 0
  ELSE IF OccursAt(s, sep, i) THEN i
  ELSE FindFrom(s, sep, i + 1)

Find(s, sep) == FindFrom(s, sep, 1)

(* str.split(sep): never empty, "" gives [""] *)
RECURSIVE Split(_, _)
Split(s, sep) ==
  LET i == Find(s, sep) IN
  IF i = 0 THEN <<s>>
  ELSE <<SubSeq(s, 1, i - 1)>> \o Split(SubSeq(s, i + Len(sep), Len(s)), sep)

(* str.strip() *)
RECURSIVE LStrip(_)
LStrip(s) ==
  IF s # <<>> /\ Head(s) \in Whitespace THEN LStrip(Tail(s)) ELSE s

RECURSIVE RStrip(_)
RStrip(s) ==
  IF s # <<>> /\ s[Len(s)] \in Whitespace
  THEN RStrip(SubSeq(s, 1, Len(s) - 1)) ELSE s

Strip(s) == RStrip(LStrip(s))

RECURSIVE DigitsValue(_, _)
DigitsValue(s, acc) ==
  IF s = <<>> THEN acc
  ELSE IF Head(s) = "_" THEN DigitsValue(Tail(s), acc)
  ELSE DigitsValue(Tail(s), 10 * acc + DigitVal(Head(s)))

(* int(s): None stands for ValueError.  Surrounding whitespace, one sign *)
(* and single underscores between digits are accepted.                  *)
int(s) ==
  LET t == Strip(s)
      signed == t # <<>> /\ Head(t) \in {"+", "-"}
      body == IF signed THEN Tail(t) ELSE t
      wellformed ==
        /\ body # <<>>
        /\ \A i \in 1..Len(body) : body[i] \in Digits \cup {"_"}
        /\ body[1] \in Digits /\ body[Len(body)] \in Digits
        /\ \A i \in 1..(Len(body) - 1) : ~(body[i] = "_" /\ body[i + 1] = "_")
  IN IF ~wellformed THEN None
     ELSE IF signed /\ Head(t) = "-" THEN Some(0 - DigitsValue(body, 0))
     ELSE Some(DigitsValue(body, 0))

RECURSIVE Join(_, _)
Join(parts, sep) ==
  IF Len(parts) = 0 THEN <<>>
  ELSE IF Len(parts) = 1 THEN parts[1]
  ELSE parts[1] \o sep \o Join(Tail(parts), sep)

RECURSIVE SelectNonBlank(_)
SelectNonBlank(ls) ==
  IF ls = <<>> THEN <<>>
  ELSE IF Strip(Head(ls)) # <<>> THEN <<Head(ls)>> \o SelectNonBlank(Tail(ls))
  ELSE SelectNonBlank(Tail(ls))

-----------------------------------------------------------------------------
(* api.py: enums *)

DeviceMode ==
  [IDLE |-> <<"0", "0">>, TRAY_OPEN |-> <<"0", "1">>, REWIND |-> <<"0", "2">>,
   FAST_FORWARD |-> <<"0", "5">>, SLOW_MOTION |-> <<"0", "6">>,
   STANDBY |-> <<"0", "7">>, PLAYING |-> <<"0", "8">>, PAUSED |-> <<"0", "9">>,
   UNKNOWN |-> <<"F", "F">>]

PlaybackState ==
  [STOPPED |-> <<"0">>, PLAYING |-> <<"1">>, PAUSED |-> <<"2">>,
   FAST_FORWARD |-> <<"4">>, REWIND |-> <<"5">>, SLOW_MOTION |-> <<"6">>,
   UNKNOWN |-> <<"9", "9">>]

(* for member in Enum: if member.value == val: ...; break *)
EnumLookup(enum, val) ==
  IF \E m \in DOMAIN enum : enum[m] = val
  THEN CHOOSE m \in DOMAIN enum : enum[m] = val
  ELSE "UNKNOWN"

-----------------------------------------------------------------------------
(* api.py: transport *)

CRLF == <<"\r", "\n">>
COMMA == <<",">>

(* A POST either fails in urlopen (any exception) or yields a body. *)
NetworkError == [error |-> TRUE]
Received(body) == [error |-> FALSE, body |-> body]

(* the except clauses of _send_raw, and a POST that ends in one of them *)
Exceptions == {"HTTPError", "URLError", "Exception"}
Raised(exception) == [error |-> TRUE, exception |-> exception]

_send_raw_http_status(reply) ==
  IF reply.error
  THEN IF "exception" \in DOMAIN reply /\ reply.exception = "HTTPError"
       THEN [success |-> FALSE, code |-> Some(<<"5", "0", "0">>),
             lines |-> <<>>]
       ELSE [success |-> FALSE, code |-> None, lines |-> <<>>]
  ELSE LET lines == Split(reply.body, CRLF)
           first == lines[1]
           response_code ==
             IF Find(first, COMMA) # 0
             THEN SubSeq(first, 1, Find(first, COMMA) - 1)
             ELSE first
           data_lines == SelectNonBlank(Tail(lines))
       IN [success |-> response_code = <<"0", "0">>,
           code |-> Some(response_code),
           lines |-> data_lines]

_send_raw_keeps_blank(reply) ==
  IF reply.error
  THEN [success |-> FALSE, code |-> None, lines |-> <<>>]
  ELSE LET lines == Split(reply.body, CRLF)
           first == lines[1]
           response_code ==
             IF Find(first, COMMA) # 0
             THEN SubSeq(first, 1, Find(first, COMMA) - 1)
             ELSE first
           data_lines == SelectSeq(Tail(lines), LAMBDA line : line # <<>>)
       IN [success |-> response_code = <<"0", "0">>,
           code |-> Some(response_code),
           lines |-> data_lines]

_send_raw(reply) ==
  IF reply.error
  THEN [success |-> FALSE, code |-> None, lines |-> <<>>]
  ELSE LET lines == Split(reply.body, CRLF)
           first == lines[1]
           response_code ==
             IF Find(first, COMMA) # 0
             THEN SubSeq(first, 1, Find(first, COMMA) - 1)
             ELSE first
           data_lines == SelectNonBlank(Tail(lines))
       IN [success |-> response_code = <<"0", "0">>,
           code |-> Some(response_code),
           lines |-> data_lines]

-----------------------------------------------------------------------------
(* api.py: status decoding *)

QueryFailed_both(pst, st) == ~pst.success /\ ~st.success

QueryFailed_or_empty(pst, st) ==
  ~pst.success \/ ~st.success \/ pst.lines = <<>> \/ st.lines = <<>>

(* if not pst_success or not status_success: return None *)
QueryFailed(pst, st) == ~pst.success \/ ~st.success

ParsePST_one_try(pst_lines) ==
  LET parts == IF pst_lines # <<>> THEN Split(pst_lines[1], COMMA) ELSE <<>>
      ok == pst_lines # <<>> /\ Len(parts) >= 3
  IN [playback_state |->
        IF ok THEN EnumLookup(PlaybackState, parts[1]) ELSE "UNKNOWN",
      position_seconds |->
        IF ok /\ int(parts[2]) # None THEN Val(int(parts[2])) ELSE 0,
      speed_multiplier |->
        IF ok /\ int(parts[2]) # None /\ int(parts[3]) # None
        THEN Val(int(parts[3])) ELSE 0,
      raw_pst |-> IF pst_lines # <<>> THEN Some(pst_lines[1]) ELSE None]

(* "Parse PST": the defaults, overwritten from line 0 when it has 3 fields *)
ParsePST(pst_lines) ==
  LET parts == IF pst_lines # <<>> THEN Split(pst_lines[1], COMMA) ELSE <<>>
      ok == pst_lines # <<>> /\ Len(parts) >= 3
  IN [playback_state |->
        IF ok THEN EnumLookup(PlaybackState, parts[1]) ELSE "UNKNOWN",
      position_seconds |->
        IF ok /\ int(parts[2]) # None THEN Val(int(parts[2])) ELSE 0,
      speed_multiplier |->
        IF ok /\ int(parts[3]) # None THEN Val(int(parts[3])) ELSE 0,
      raw_pst |-> IF pst_lines # <<>> THEN Some(pst_lines[1]) ELSE None]

ParseStatusSimple_always_on(status_lines) ==
  LET parts == IF status_lines # <<>>
               THEN Split(status_lines[1], COMMA) ELSE <<>>
      ok == status_lines # <<>> /\ Len(parts) >= 14
      device_mode == IF ok THEN EnumLookup(DeviceMode, parts[4])
                     ELSE "UNKNOWN"
  IN [is_on |-> TRUE,
      device_mode |-> device_mode,
      clock_time |-> IF ok /\ parts[14] # <<>> THEN Some(parts[14]) ELSE None,
      raw_status |->
        IF status_lines # <<>> THEN Some(status_lines[1]) ELSE None]

ParseStatusSimple_off_by_default(status_lines) ==
  LET parts == IF status_lines # <<>>
               THEN Split(status_lines[1], COMMA) ELSE <<>>
      ok == status_lines # <<>> /\ Len(parts) >= 14
      device_mode == IF ok THEN EnumLookup(DeviceMode, parts[4])
                     ELSE "UNKNOWN"
  IN [is_on |-> IF ok THEN device_mode # "STANDBY" ELSE FALSE,
      device_mode |-> device_mode,
      clock_time |-> IF ok /\ parts[14] # <<>> THEN Some(parts[14]) ELSE None,
      raw_status |->
        IF status_lines # <<>> THEN Some(status_lines[1]) ELSE None]

ParseStatusSimple_four_fields(status_lines) ==
  LET parts == IF status_lines # <<>>
               THEN Split(status_lines[1], COMMA) ELSE <<>>
      ok == status_lines # <<>> /\ Len(parts) >= 14
      has_mode == status_lines # <<>> /\ Len(parts) >= 4
      device_mode == IF has_mode THEN EnumLookup(DeviceMode, parts[4])
                     ELSE "UNKNOWN"
  IN [is_on |-> IF has_mode THEN device_mode # "STANDBY" ELSE TRUE,
      device_mode |-> device_mode,
      clock_time |-> IF ok /\ parts[14] # <<>> THEN Some(parts[14]) ELSE None,
      raw_status |->
        IF status_lines # <<>> THEN Some(status_lines[1]) ELSE None]

ParseStatusSimple_empty_clock(status_lines) ==
  LET parts == IF status_lines # <<>>
               THEN Split(status_lines[1], COMMA) ELSE <<>>
      ok == status_lines # <<>> /\ Len(parts) >= 14
      device_mode == IF ok THEN EnumLookup(DeviceMode, parts[4])
                     ELSE "UNKNOWN"
  IN [is_on |-> IF ok THEN device_mode # "STANDBY" ELSE TRUE,
      device_mode |-> device_mode,
      clock_time |-> IF ok THEN Some(parts[14]) ELSE None,
      raw_status |->
        IF status_lines # <<>> THEN Some(status_lines[1]) ELSE None]

(* "Parse STATUS_SIMPLE": the defaults, overwritten from line 0 when it *)
(* has 14 fields                                                        *)
ParseStatusSimple(status_lines) ==
  LET parts == IF status_lines # <<>>
               THEN Split(status_lines[1], COMMA) ELSE <<>>
      ok == status_lines # <<>> /\ Len(parts) >= 14
      device_mode == IF ok THEN EnumLookup(DeviceMode, parts[4])
                     ELSE "UNKNOWN"
  IN [is_on |-> IF ok THEN device_mode # "STANDBY" ELSE TRUE,
      device_mode |-> device_mode,
      clock_time |-> IF ok /\ parts[14] # <<>> THEN Some(parts[14]) ELSE None,
      raw_status |->
        IF status_lines # <<>> THEN Some(status_lines[1]) ELSE None]

(* pst, st: what _send_raw returned for the two POSTs *)
get_player_status(pst, st) ==
  IF QueryFailed(pst, st) THEN None
  ELSE LET p == ParsePST(pst.lines)
           q == ParseStatusSimple(st.lines)
       IN Some([is_on |-> q.is_on,
                device_mode |-> q.device_mode,
                playback_state |-> p.playback_state,
                position_seconds |-> p.position_seconds,
                speed_multiplier |-> p.speed_multiplier,
                clock_time |-> q.clock_time,
                raw_pst |-> p.raw_pst,
                raw_status |-> q.raw_status])

-----------------------------------------------------------------------------
(* coordinator.py *)

MediaPlayerStateOf_seek_idle(s) ==
  IF ~s.is_on THEN "OFF"
  ELSE IF s.device_mode = "TRAY_OPEN" THEN "IDLE"
  ELSE IF s.device_mode = "IDLE" THEN "IDLE"
  ELSE IF s.device_mode = "PLAYING" THEN "PLAYING"
  ELSE IF s.device_mode = "PAUSED" THEN "PAUSED"
  ELSE "IDLE"

MediaPlayerStateOf_unknown_off(s) ==
  IF ~s.is_on THEN "OFF"
  ELSE IF s.device_mode = "TRAY_OPEN" THEN "IDLE"
  ELSE IF s.device_mode = "IDLE" THEN "IDLE"
  ELSE IF s.device_mode = "PLAYING" THEN "PLAYING"
  ELSE IF s.device_mode = "PAUSED" THEN "PAUSED"
  ELSE IF s.device_mode \in {"FAST_FORWARD", "REWIND", "SLOW_MOTION"}
       THEN "PLAYING"
  ELSE "OFF"

(* Map to Home Assistant MediaPlayerState *)
MediaPlayerStateOf(s) ==
  IF ~s.is_on THEN "OFF"
  ELSE IF s.device_mode = "TRAY_OPEN" THEN "IDLE"
  ELSE IF s.device_mode = "IDLE" THEN "IDLE"
  ELSE IF s.device_mode = "PLAYING" THEN "PLAYING"
  ELSE IF s.device_mode = "PAUSED" THEN "PAUSED"
  ELSE IF s.device_mode \in {"FAST_FORWARD", "REWIND", "SLOW_MOTION"}
       THEN "PLAYING"
  ELSE "IDLE"

UnknownData_all_keys ==
  [state |-> None, is_on |-> None, device_mode |-> None,
   device_mode_value |-> None, playback_state |-> None,
   playback_state_value |-> None, media_position |-> Some(0),
   media_position_updated_at |-> None, media_duration |-> Some(0),
   speed_multiplier |-> Some(0), tray_open |-> None, clock_time |-> None,
   raw_pst |-> None, raw_status |-> None]

UnknownData_off ==
  [state |-> Some("OFF"), is_on |-> Some(FALSE), device_mode |-> None,
   playback_state |-> None, media_position |-> Some(0),
   media_duration |-> Some(0), speed_multiplier |-> Some(0),
   tray_open |-> None, clock_time |-> None]

(* _update, status is None: the dict returned *)
UnknownData ==
  [state |-> None, is_on |-> None, device_mode |-> None,
   playback_state |-> None, media_position |-> Some(0),
   media_duration |-> Some(0), speed_multiplier |-> Some(0),
   tray_open |-> None, clock_time |-> None]

_update_guess_duration(st, t) ==
  IF st = None THEN UnknownData
  ELSE LET s == Val(st) IN
       [is_on |-> Some(s.is_on),
        device_mode |-> Some(s.device_mode),
        device_mode_value |-> Some(DeviceMode[s.device_mode]),
        playback_state |-> Some(s.playback_state),
        playback_state_value |-> Some(PlaybackState[s.playback_state]),
        state |-> Some(MediaPlayerStateOf(s)),
        media_position |-> Some(s.position_seconds),
        media_position_updated_at |-> Some(t),
        media_duration |-> Some(s.position_seconds),
        speed_multiplier |-> Some(s.speed_multiplier),
        tray_open |-> Some(s.device_mode = "TRAY_OPEN"),
        clock_time |-> s.clock_time,
        raw_pst |-> s.raw_pst,
        raw_status |-> s.raw_status]

(* the dict _update returns for the status st when utcnow() reads t *)
_update(st, t) ==
  IF st = None THEN UnknownData
  ELSE LET s == Val(st) IN
       [is_on |-> Some(s.is_on),
        device_mode |-> Some(s.device_mode),
        device_mode_value |-> Some(DeviceMode[s.device_mode]),
        playback_state |-> Some(s.playback_state),
        playback_state_value |-> Some(PlaybackState[s.playback_state]),
        state |-> Some(MediaPlayerStateOf(s)),
        media_position |-> Some(s.position_seconds),
        media_position_updated_at |-> Some(t),
        media_duration |-> Some(0),
        speed_multiplier |-> Some(s.speed_multiplier),
        tray_open |-> Some(s.device_mode = "TRAY_OPEN"),
        clock_time |-> s.clock_time,
        raw_pst |-> s.raw_pst,
        raw_status |-> s.raw_status]

(* dict.get(key) *)
Get(d, k) == IF k \in DOMAIN d THEN d[k] ELSE None

EmptyDict == [k \in {} |-> None]

-----------------------------------------------------------------------------
(* Entities: projections of coordinator.data *)

(* remote.py: PanasonicBluRayRemote.is_on *)
RemoteIsOn(d) == IF DOMAIN d = {} THEN None ELSE Get(d, "is_on")

(* switch.py: PanasonicTraySwitch.is_on *)
TraySwitchIsOn(d) == IF DOMAIN d = {} THEN None ELSE Get(d, "tray_open")

-----------------------------------------------------------------------------
(* The device: what a POST can bring back. *)

Body(lines) == Join(lines, CRLF) \o CRLF

X == <<"x">>
OK == <<"0", "0">>
Clock == <<"1", "4", ":", "3", "2">>

StatusLine(mode, clock) ==
  Join(<<X, X, X, mode, X, X, X, X, X, X, X, X, X, clock>>, COMMA)

ModeCodes ==
  {<<"0", "0">>, <<"0", "1">>, <<"0", "2">>, <<"0", "5">>, <<"0", "6">>,
   <<"0", "7">>, <<"0", "8">>, <<"0", "9">>, <<"F", "F">>, <<"0", "A">>}

PstBodies ==
  { Body(<<OK, <<"1", ",", "1", "2", "5", ",", "0">> >>),
    Body(<<OK \o COMMA \o X, <<"0", ",", "-", "5", ",", "1", "0">> >>),
    Body(<<OK, <<" ">>, <<"7", ",", "x", ",", " ", "1", "2", " ">> >>),
    Body(<<OK, <<"2", ",", "7">> >>),
    Body(<<OK>>),
    Body(<<<<"0", "1", ",", "e", "x", "t", "r", "a">>,
           <<"l", "i", "n", "e", "d", "a", "t", "a">> >>),
    <<>> }

StatusBodies ==
  { Body(<<OK, StatusLine(m, Clock)>>) : m \in ModeCodes }
  \cup
  { Body(<<OK, StatusLine(<<"0", "8">>, <<>>)>>),
    Body(<<OK, Join(<<X, X, X, <<"0", "7">> >>, COMMA)>>),
    Body(<<OK>>),
    Body(<< <<"F", "E">> >>) }

PstReplies == {NetworkError} \cup {Received(b) : b \in PstBodies}
StatusReplies == {NetworkError} \cup {Received(b) : b \in StatusBodies}

(* what _send_raw returns for them *)
PstResults == {_send_raw(reply) : reply \in PstReplies}
StatusResults == {_send_raw(reply) : reply \in StatusReplies}

------------------------------------------------------------------------(* get_player_status and _update, tabulated over the results above *)
PlayerStatusOf ==
  [p \in PstResults |-> [s \in StatusResults |-> get_player_status(p, s)]]

-----------------------------------------------------------------------------
(* api.py: the command table and send_command's resolution *)

cCMD_ == <<"c","C","M","D","_">>
cCMD_RC_ == <<"c","C","M","D","_","R","C","_">>
RC(name) == cCMD_RC_ \o name

COMMANDS ==
     (<<"P","O","W","E","R">> :> RC(<<"P","O","W","E","R">>))
  @@ (<<"P","O","W","E","R","O","N">> :> RC(<<"P","O","W","E","R","O","N">>))
  @@ (<<"P","O","W","E","R","O","F","F">> :> RC(<<"P","O","W","E","R","O","F","F">>))
  @@ (<<"P","L","A","Y","B","A","C","K">> :> RC(<<"P","L","A","Y","B","A","C","K">>))
  @@ (<<"P","L","A","Y">> :> RC(<<"P","L","A","Y","B","A","C","K">>))
  @@ (<<"P","A","U","S","E">> :> RC(<<"P","A","U","S","E">>))
  @@ (<<"S","T","O","P">> :> RC(<<"S","T","O","P">>))
  @@ (<<"M","E","D","I","A","_","P","L","A","Y">> :> RC(<<"P","L","A","Y","B","A","C","K">>))
  @@ (<<"M","E","D","I","A","_","P","A","U","S","E">> :> RC(<<"P","A","U","S","E">>))
  @@ (<<"M","E","D","I","A","_","P","L","A","Y","_","P","A","U","S","E">> :> RC(<<"P","A","U","S","E">>))
  @@ (<<"M","E","D","I","A","_","S","T","O","P">> :> RC(<<"S","T","O","P">>))
  @@ (<<"U","P">> :> RC(<<"U","P">>))
  @@ (<<"D","O","W","N">> :> RC(<<"D","O","W","N">>))
  @@ (<<"L","E","F","T">> :> RC(<<"L","E","F","T">>))
  @@ (<<"R","I","G","H","T">> :> RC(<<"R","I","G","H","T">>))
  @@ (<<"D","P","A","D","_","U","P">> :> RC(<<"U","P">>))
  @@ (<<"D","P","A","D","_","D","O","W","N">> :> RC(<<"D","O","W","N">>))
  @@ (<<"D","P","A","D","_","L","E","F","T">> :> RC(<<"L","E","F","T">>))
  @@ (<<"D","P","A","D","_","R","I","G","H","T">> :> RC(<<"R","I","G","H","T">>))
  @@ (<<"D","P","A","D","_","C","E","N","T","E","R">> :> RC(<<"S","E","L","E","C","T">>))
  @@ (<<"S","E","L","E","C","T">> :> RC(<<"S","E","L","E","C","T">>))
  @@ (<<"O","K">> :> RC(<<"S","E","L","E","C","T">>))
  @@ (<<"R","E","T","U","R","N">> :> RC(<<"R","E","T","U","R","N">>))
  @@ (<<"B","A","C","K">> :> RC(<<"R","E","T","U","R","N">>))
  @@ (<<"E","X","I","T">> :> RC(<<"E","X","I","T">>))
  @@ (<<"H","O","M","E">> :> RC(<<"M","L","T","N","A","V","I">>))
  @@ (<<"M","E","N","U">> :> RC(<<"M","E","N","U">>))
  @@ (<<"T","I","T","L","E">> :> RC(<<"T","I","T","L","E">>))
  @@ (<<"P","O","P","U","P">> :> RC(<<"P","U","P","M","E","N","U">>))
  @@ (<<"P","U","P","M","E","N","U">> :> RC(<<"P","U","P","M","E","N","U">>))
  @@ (<<"S","E","T","U","P">> :> RC(<<"S","E","T","U","P">>))
  @@ (<<"S","K","I","P","F","W","D">> :> RC(<<"S","K","I","P","F","W","D">>))
  @@ (<<"S","K","I","P","R","E","V">> :> RC(<<"S","K","I","P","R","E","V">>))
  @@ (<<"N","E","X","T">> :> RC(<<"S","K","I","P","F","W","D">>))
  @@ (<<"P","R","E","V">> :> RC(<<"S","K","I","P","R","E","V">>))
  @@ (<<"P","R","E","V","I","O","U","S">> :> RC(<<"S","K","I","P","R","E","V">>))
  @@ (<<"M","E","D","I","A","_","N","E","X","T">> :> RC(<<"S","K","I","P","F","W","D">>))
  @@ (<<"M","E","D","I","A","_","P","R","E","V","I","O","U","S">> :> RC(<<"S","K","I","P","R","E","V">>))
  @@ (<<"C","U","E">> :> RC(<<"C","U","E">>))
  @@ (<<"F","F">> :> RC(<<"C","U","E">>))
  @@ (<<"S","E","A","R","C","H","_","F","W","D","1">> :> RC(<<"S","E","A","R","C","H","_","F","W","D","1">>))
  @@ (<<"S","E","A","R","C","H","_","F","W","D","2">> :> RC(<<"S","E","A","R","C","H","_","F","W","D","2">>))
  @@ (<<"S","E","A","R","C","H","_","F","W","D","3">> :> RC(<<"S","E","A","R","C","H","_","F","W","D","3">>))
  @@ (<<"S","E","A","R","C","H","_","F","W","D","4">> :> RC(<<"S","E","A","R","C","H","_","F","W","D","4">>))
  @@ (<<"S","E","A","R","C","H","_","F","W","D","5">> :> RC(<<"S","E","A","R","C","H","_","F","W","D","5">>))
  @@ (<<"R","E","V">> :> RC(<<"R","E","V">>))
  @@ (<<"R","E","W">> :> RC(<<"R","E","V">>))
  @@ (<<"S","E","A","R","C","H","_","R","E","V","1">> :> RC(<<"S","E","A","R","C","H","_","R","E","V","1">>))
  @@ (<<"S","E","A","R","C","H","_","R","E","V","2">> :> RC(<<"S","E","A","R","C","H","_","R","E","V","2">>))
  @@ (<<"S","E","A","R","C","H","_","R","E","V","3">> :> RC(<<"S","E","A","R","C","H","_","R","E","V","3">>))
  @@ (<<"S","E","A","R","C","H","_","R","E","V","4">> :> RC(<<"S","E","A","R","C","H","_","R","E","V","4">>))
  @@ (<<"S","E","A","R","C","H","_","R","E","V","5">> :> RC(<<"S","E","A","R","C","H","_","R","E","V","5">>))
  @@ (<<"S","L","O","W","_","F","W","D","1">> :> RC(<<"S","L","O","W","_","F","W","D","1">>))
  @@ (<<"S","L","O","W","_","F","W","D","2">> :> RC(<<"S","L","O","W","_","F","W","D","2">>))
  @@ (<<"S","L","O","W","_","F","W","D","3">> :> RC(<<"S","L","O","W","_","F","W","D","3">>))
  @@ (<<"S","L","O","W","_","F","W","D","4">> :> RC(<<"S","L","O","W","_","F","W","D","4">>))
  @@ (<<"S","L","O","W","_","F","W","D","5">> :> RC(<<"S","L","O","W","_","F","W","D","5">>))
  @@ (<<"F","R","A","M","E","A","D","V">> :> RC(<<"F","R","A","M","E","A","D","V">>))
  @@ (<<"R","E","V","E","R","S","E","F","R","A","M","E","A","D","V">> :> RC(<<"R","E","V","E","R","S","E","F","R","A","M","E","A","D","V">>))
  @@ (<<"O","P","_","C","L">> :> RC(<<"O","P","_","C","L">>))
  @@ (<<"E","J","E","C","T">> :> RC(<<"O","P","_","C","L">>))
  @@ (<<"T","R","A","Y","O","P","E","N">> :> RC(<<"T","R","A","Y","O","P","E","N">>))
  @@ (<<"T","R","A","Y","C","L","O","S","E">> :> RC(<<"T","R","A","Y","C","L","O","S","E">>))
  @@ (<<"R","E","D">> :> RC(<<"R","E","D">>))
  @@ (<<"G","R","E","E","N">> :> RC(<<"G","R","E","E","N">>))
  @@ (<<"Y","E","L","L","O","W">> :> RC(<<"Y","E","L","L","O","W">>))
  @@ (<<"B","L","U","E">> :> RC(<<"B","L","U","E">>))
  @@ (<<"D","0">> :> RC(<<"D","0">>))
  @@ (<<"D","1">> :> RC(<<"D","1">>))
  @@ (<<"D","2">> :> RC(<<"D","2">>))
  @@ (<<"D","3">> :> RC(<<"D","3">>))
  @@ (<<"D","4">> :> RC(<<"D","4">>))
  @@ (<<"D","5">> :> RC(<<"D","5">>))
  @@ (<<"D","6">> :> RC(<<"D","6">>))
  @@ (<<"D","7">> :> RC(<<"D","7">>))
  @@ (<<"D","8">> :> RC(<<"D","8">>))
  @@ (<<"D","9">> :> RC(<<"D","9">>))
  @@ (<<"0">> :> RC(<<"D","0">>))
  @@ (<<"1">> :> RC(<<"D","1">>))
  @@ (<<"2">> :> RC(<<"D","2">>))
  @@ (<<"3">> :> RC(<<"D","3">>))
  @@ (<<"4">> :> RC(<<"D","4">>))
  @@ (<<"5">> :> RC(<<"D","5">>))
  @@ (<<"6">> :> RC(<<"D","6">>))
  @@ (<<"7">> :> RC(<<"D","7">>))
  @@ (<<"8">> :> RC(<<"D","8">>))
  @@ (<<"9">> :> RC(<<"D","9">>))
  @@ (<<"A","U","D","I","O","S","E","L">> :> RC(<<"A","U","D","I","O","S","E","L">>))
  @@ (<<"A","U","D","I","O">> :> RC(<<"A","U","D","I","O","S","E","L">>))
  @@ (<<"S","U","B","_","T","I","T","L","E">> :> RC(<<"S","U","B","_","T","I","T","L","E">>))
  @@ (<<"S","U","B","T","I","T","L","E">> :> RC(<<"S","U","B","_","T","I","T","L","E">>))
  @@ (<<"D","E","T","A","I","L">> :> RC(<<"D","E","T","A","I","L">>))
  @@ (<<"I","N","F","O">> :> RC(<<"D","E","T","A","I","L">>))
  @@ (<<"D","S","P","S","E","L">> :> RC(<<"D","S","P","S","E","L">>))
  @@ (<<"D","I","S","P","L","A","Y">> :> RC(<<"D","S","P","S","E","L">>))
  @@ (<<"O","S","D","O","N","O","F","F">> :> RC(<<"O","S","D","O","N","O","F","F">>))
  @@ (<<"3","D">> :> RC(<<"3","D">>))
  @@ (<<"P","I","C","T","M","D">> :> RC(<<"P","I","C","T","M","D">>))
  @@ (<<"P","I","C","T","U","R","E","S","E","T","T","I","N","G","S">> :> RC(<<"P","I","C","T","U","R","E","S","E","T","T","I","N","G","S">>))
  @@ (<<"H","D","R","_","P","I","C","T","U","R","E","M","O","D","E">> :> RC(<<"H","D","R","_","P","I","C","T","U","R","E","M","O","D","E">>))
  @@ (<<"N","E","T","F","L","I","X">> :> RC(<<"N","E","T","F","L","I","X">>))
  @@ (<<"N","E","T","W","O","R","K">> :> RC(<<"N","E","T","W","O","R","K">>))
  @@ (<<"M","I","R","A","C","A","S","T">> :> RC(<<"M","I","R","A","C","A","S","T">>))

api_cmd_no_upper(command) ==
  IF command \in DOMAIN COMMANDS THEN COMMANDS[command]
  ELSE IF startswith(command, cCMD_) THEN command
  ELSE cCMD_RC_ \o upper(command)

api_cmd_cached(command) ==
  LET asked == IF last_command = None THEN command ELSE Val(last_command)
  IN IF upper(asked) \in DOMAIN COMMANDS THEN COMMANDS[upper(asked)]
     ELSE IF startswith(asked, cCMD_) THEN asked
     ELSE cCMD_RC_ \o upper(asked)

(* the token send_command resolves command to *)
api_cmd(command) ==
  IF upper(command) \in DOMAIN COMMANDS THEN COMMANDS[upper(command)]
  ELSE IF startswith(command, cCMD_) THEN command
  ELSE cCMD_RC_ \o upper(command)

(* the request body of a token *)
RequestData(token) ==
  token \o <<".","x","=","1","0","0","&">> \o token \o <<".","y","=","1","0","0">>

pst_data == RequestData(<<"c","C","M","D","_","P","S","T">>)
status_data == RequestData(<<"c","C","M","D","_","R","C","_","S","T","A","T","U","S","_","S","I","M","P","L","E">>)

-----
(* State machine *)

(* const.py: polling intervals, in seconds *)
DEFAULT_SCAN_INTERVAL == 5
MIN_SCAN_INTERVAL == 1
MAX_SCAN_INTERVAL == 60
CONF_SCAN_INTERVAL == "scan_interval"

(* dict.get(k, default) *)
GetDefault(d, k, default) == IF k \in DOMAIN d THEN Val(d[k]) ELSE default

(* the config entry as the user step created it, no option set, and the *)
(* coordinator async_setup_entry built for it; no options flow is open  *)
InitConfig ==
  /\ options = EmptyDict
  /\ update_interval =
       GetDefault(EmptyDict, CONF_SCAN_INTERVAL, DEFAULT_SCAN_INTERVAL)
  /\ reload_pending = FALSE
  /\ flow_result = None

(* no remote call is running; no config flow was begun and no config *)
(* entry exists                                                      *)
InitSurface ==
  /\ remote_call = None
  /\ flow_user_input = None
  /\ user_result = None
  /\ validate_info = None
  /\ entries = {}

Init ==
  /\ pc = "idle"
  /\ pst_result = None
  /\ status_result = None
  /\ status = None
  /\ data = EmptyDict
  /\ replaced_keys = {}
  /\ last_update_success = TRUE
  /\ outcome = "none"
  /\ now = 0
  /\ entities_added = FALSE
  /\ _attr_state = None
  /\ _attr_media_position = None
  /\ _attr_media_position_updated_at = None
  /\ _attr_media_duration = None
  /\ last_command = None
  /\ timer = TRUE
  /\ in_flight = 0
  /\ recording = FALSE
  /\ wire = <<>>
  /\ cmd_ret = None
  /\ call = None
  /\ InitConfig
  /\ InitSurface

entity_vars == <<entities_added, _attr_state, _attr_media_position,
                 _attr_media_position_updated_at, _attr_media_duration>>
cycle_vars == <<pc, pst_result, status_result, status, data, replaced_keys,
                last_update_success, outcome>>
sched_vars == <<timer, in_flight>>
api_vars == <<wire, cmd_ret>>
config_vars == <<options, update_interval, reload_pending, flow_result>>
user_flow_vars == <<flow_user_input, user_result, validate_info, entries>>
surface_vars == <<remote_call, user_flow_vars>>
probe_vars == <<recording, call, config_vars, surface_vars>>

(* _send_raw is entered by caller (for send_command, with the command  *)
(* it was given) with the request body data and returns result; wire   *)
(* keeps the exchanges of a recorded behaviour in the order the device *)
(* answered them                                                       *)
CanPost == ~recording \/ Len(wire) < MaxWire

Exchange(caller, command, request, result) ==
  [caller |-> caller, command |-> command, data |-> request,
   result |-> result]

(* a function of the client was called with arg and returned ret *)
Returned(fn, arg, ret) == Some([fn |-> fn, arg |-> arg, ret |-> ret])

Log(caller, command, request, result) ==
  wire' = IF recording
          THEN Append(wire, Exchange(caller, command, request, result))
          ELSE wire

(* the refresh timer of the coordinator fires: it is armed once and is *)
(* re-armed only when the refresh it started has ended                 *)
TimerFires_periodic ==
  /\ timer
  /\ timer' = TRUE

TimerFires ==
  /\ timer
  /\ timer' = FALSE

(* a refresh has ended (published or failed): the next one is scheduled *)
ScheduleRefresh == timer' = TRUE

(* wall clock *)
Tick ==
  /\ now < MaxTime
  /\ now' = now + 1
  /\ UNCHANGED <<cycle_vars, entity_vars, last_command, sched_vars, api_vars,
                 probe_vars>>

(* _async_update_data is entered: the first refresh of async_setup_entry, *)
(* then every time the refresh timer fires.                               *)
StartCycle ==
  /\ TimerFires
  /\ in_flight < MaxInFlight
  /\ in_flight' = in_flight + 1
  /\ pc' = "pst"
  /\ pst_result' = None
  /\ status_result' = None
  /\ UNCHANGED <<status, data, replaced_keys, last_update_success, outcome,
                 now, entity_vars, last_command, api_vars, probe_vars>>

(* media_player.py: PanasonicBluRayMediaPlayer._update_from_data on d *)
_update_from_data_keep_missing(d) ==
  /\ _attr_state' = Get(d, "state")
  /\ _attr_media_position' = Get(d, "media_position")
  /\ _attr_media_position_updated_at' =
       IF "media_position_updated_at" \in DOMAIN d
       THEN d["media_position_updated_at"]
       ELSE _attr_media_position_updated_at
  /\ _attr_media_duration' = Get(d, "media_duration")

_update_from_data(d) ==
  /\ _attr_state' = Get(d, "state")
  /\ _attr_media_position' = Get(d, "media_position")
  /\ _attr_media_position_updated_at' = Get(d, "media_position_updated_at")
  /\ _attr_media_duration' = Get(d, "media_duration")

(* the coordinator's listeners are called *)
NotifyListeners(d) ==
  IF entities_added
  THEN _update_from_data(d) /\ UNCHANGED entities_added
  ELSE UNCHANGED entity_vars

PostPST_short_circuit ==
  /\ pc = "pst"
  /\ CanPost
  /\ \E result \in PstResults :
       /\ pst_result' = Some(result)
       /\ Log("get_player_status", None, pst_data, result)
       /\ IF result.success
          THEN /\ pc' = "status"
               /\ UNCHANGED <<status, data, replaced_keys,
                              last_update_success, outcome, entity_vars,
                              sched_vars>>
          ELSE /\ status' = None
               /\ data' = _update(None, now)
               /\ replaced_keys' = DOMAIN data
               /\ last_update_success' = TRUE
               /\ outcome' = "published"
               /\ pc' = "idle"
               /\ NotifyListeners(data')
               /\ ScheduleRefresh
               /\ in_flight' = in_flight - 1
  /\ UNCHANGED <<status_result, now, last_command, cmd_ret, probe_vars>>

PostPST_retry ==
  /\ pc = "pst"
  /\ CanPost
  /\ \E result \in PstResults :
       /\ pst_result' = Some(result)
       /\ Log("get_player_status", None, pst_data, result)
       /\ pc' = IF result.success THEN "status" ELSE "pst"
  /\ UNCHANGED <<status_result, status, data, replaced_keys,
                 last_update_success, outcome, now, entity_vars, last_command,
                 sched_vars, cmd_ret, probe_vars>>

(* get_player_status: the PST POST *)
PostPST ==
  /\ pc = "pst"
  /\ CanPost
  /\ \E result \in PstResults :
       /\ pst_result' = Some(result)
       /\ Log("get_player_status", None, pst_data, result)
  /\ pc' = "status"
  /\ UNCHANGED <<status_result, status, data, replaced_keys,
                 last_update_success, outcome, now, entity_vars, last_command,
                 sched_vars, cmd_ret, probe_vars>>

(* d with the items of new assigned into it *)
Merged(d, new) ==
  [k \in DOMAIN d \cup DOMAIN new |-> IF k \in DOMAIN new THEN new[k] ELSE d[k]]

PostStatus_wait_for_ok ==
  /\ pc = "status"
  /\ CanPost
  /\ \E result \in StatusResults :
       /\ status_result' = Some(result)
       /\ Log("get_player_status", None, status_data, result)
       /\ IF ~result.success
          THEN UNCHANGED <<pc, status, data, replaced_keys,
                          last_update_success, outcome, entity_vars,
                          sched_vars>>
          ELSE /\ status' = PlayerStatusOf[Val(pst_result)][result]
               /\ data' = _update(status', now)
               /\ replaced_keys' = DOMAIN data
               /\ last_update_success' = TRUE
               /\ outcome' = "published"
               /\ pc' = "idle"
               /\ NotifyListeners(data')
               /\ ScheduleRefresh
               /\ in_flight' = in_flight - 1
  /\ UNCHANGED <<pst_result, now, last_command, cmd_ret, probe_vars>>

PostStatus_merge ==
  /\ pc = "status"
  /\ CanPost
  /\ \E result \in StatusResults :
       /\ status_result' = Some(result)
       /\ Log("get_player_status", None, status_data, result)
  /\ status' = PlayerStatusOf[Val(pst_result)][Val(status_result')]
  /\ data' = Merged(data, _update(status', now))
  /\ replaced_keys' = DOMAIN data
  /\ last_update_success' = TRUE
  /\ outcome' = "published"
  /\ pc' = "idle"
  /\ NotifyListeners(data')
  /\ ScheduleRefresh
  /\ in_flight' = in_flight - 1
  /\ UNCHANGED <<pst_result, now, last_command, cmd_ret, probe_vars>>

PostStatus_absent_fails ==
  /\ pc = "status"
  /\ CanPost
  /\ \E result \in StatusResults :
       /\ status_result' = Some(result)
       /\ Log("get_player_status", None, status_data, result)
  /\ status' = PlayerStatusOf[Val(pst_result)][Val(status_result')]
  /\ data' = _update(status', now)
  /\ replaced_keys' = DOMAIN data
  /\ last_update_success' = (status' # None)
  /\ outcome' = "published"
  /\ pc' = "idle"
  /\ NotifyListeners(data')
  /\ ScheduleRefresh
  /\ in_flight' = in_flight - 1
  /\ UNCHANGED <<pst_result, now, last_command, cmd_ret, probe_vars>>

(* get_player_status: the STATUS_SIMPLE POST, then the decoding; _update *)
(* builds the dict; _async_update_data assigns self.data and returns it  *)
PostStatus ==
  /\ pc = "status"
  /\ CanPost
  /\ \E result \in StatusResults :
       /\ status_result' = Some(result)
       /\ Log("get_player_status", None, status_data, result)
  /\ status' = PlayerStatusOf[Val(pst_result)][Val(status_result')]
  /\ data' = _update(status', now)
  /\ replaced_keys' = DOMAIN data
  /\ last_update_success' = TRUE
  /\ outcome' = "published"
  /\ pc' = "idle"
  /\ NotifyListeners(data')
  /\ ScheduleRefresh
  /\ in_flight' = in_flight - 1
  /\ UNCHANGED <<pst_result, now, last_command, cmd_ret, probe_vars>>

RaiseInCycle_nulls ==
  /\ pc \in {"pst", "status"}
  /\ pc' = "idle"
  /\ last_update_success' = FALSE
  /\ outcome' = "raised"
  /\ ScheduleRefresh
  /\ in_flight' = in_flight - 1
  /\ data' = UnknownData
  /\ IF last_update_success THEN NotifyListeners(data')
     ELSE UNCHANGED entity_vars
  /\ UNCHANGED <<pst_result, status_result, status, replaced_keys,
                 now, last_command, api_vars, probe_vars>>

(* an exception inside the executor job: _async_update_data raises *)
(* UpdateFailed and self.data is not assigned                      *)
RaiseInCycle ==
  /\ pc \in {"pst", "status"}
  /\ pc' = "idle"
  /\ last_update_success' = FALSE
  /\ outcome' = "raised"
  /\ ScheduleRefresh
  /\ in_flight' = in_flight - 1
  /\ IF last_update_success THEN NotifyListeners(data)
     ELSE UNCHANGED entity_vars
  /\ UNCHANGED <<pst_result, status_result, status, data, replaced_keys,
                 now, last_command, api_vars, probe_vars>>

(* async_setup_entry after the first refresh returned: the platforms *)
(* construct their entities                                           *)
AddEntities ==
  /\ ~entities_added
  /\ pc = "idle"
  /\ outcome = "published"
  /\ entities_added' = TRUE
  /\ _attr_state' = Some("OFF")
  /\ _attr_media_position' = Some(0)
  /\ _attr_media_duration' = Some(0)
  /\ UNCHANGED <<_attr_media_position_updated_at, cycle_vars, now,
                 last_command, sched_vars, api_vars, probe_vars>>

(* what the device may answer to a command, and what _send_raw returns *)
CommandReplies ==
  {NetworkError, Received(Body(<<OK>>)), Received(Body(<< <<"F", "E">> >>))}

CommandResults == {_send_raw(reply) : reply \in CommandReplies}

(* api.py: send_command(command) as its caller sees it: the token is *)
(* resolved, one POST is made and its (success, code) is returned    *)
SendCommand_always_ok(command) ==
  /\ CanPost
  /\ \E result \in CommandResults :
       /\ Log("send_command", Some(command), RequestData(api_cmd(command)),
              result)
       /\ cmd_ret' = IF recording THEN Some(<<TRUE, result.code>>)
                     ELSE cmd_ret
  /\ last_command' = Some(command)

SendCommand_locked(command) ==
  /\ pc = "idle"
  /\ CanPost
  /\ \E result \in CommandResults :
       /\ Log("send_command", Some(command), RequestData(api_cmd(command)),
              result)
       /\ cmd_ret' = IF recording THEN Some(<<result.success, result.code>>)
                     ELSE cmd_ret
  /\ last_command' = Some(command)

SendCommand(command) ==
  /\ CanPost
  /\ \E result \in CommandResults :
       /\ Log("send_command", Some(command), RequestData(api_cmd(command)),
              result)
       /\ cmd_ret' = IF recording THEN Some(<<result.success, result.code>>)
                     ELSE cmd_ret
  /\ last_command' = Some(command)

POWERON == <<"P","O","W","E","R","O","N">>
POWEROFF == <<"P","O","W","E","R","O","F","F">>

(* api.py: power_on, power_off *)
power_on == SendCommand(POWERON)
power_off == SendCommand(POWEROFF)

(* media_player.py: turn_off *)
turn_off ==
  /\ entities_added
  /\ IF _attr_state # Some("OFF") THEN power_off
     ELSE UNCHANGED <<last_command, api_vars>>
  /\ _attr_state' = Some("OFF")
  /\ UNCHANGED <<entities_added, _attr_media_position,
                 _attr_media_position_updated_at, _attr_media_duration,
                 cycle_vars, now, sched_vars, probe_vars>>

turn_on_unless_on ==
  /\ entities_added
  /\ IF _attr_state \in {Some("OFF"), None} THEN power_on
     ELSE UNCHANGED <<last_command, api_vars>>
  /\ _attr_state' = Some("IDLE")
  /\ UNCHANGED <<entities_added, _attr_media_position,
                 _attr_media_position_updated_at, _attr_media_duration,
                 cycle_vars, now, sched_vars, probe_vars>>

(* media_player.py: turn_on *)
turn_on ==
  /\ entities_added
  /\ IF _attr_state = Some("OFF") THEN power_on
     ELSE UNCHANGED <<last_command, api_vars>>
  /\ _attr_state' = Some("IDLE")
  /\ UNCHANGED <<entities_added, _attr_media_position,
                 _attr_media_position_updated_at, _attr_media_duration,
                 cycle_vars, now, sched_vars, probe_vars>>

(* api.py: send_command called by any consumer of the client *)
send_command(command) ==
  /\ SendCommand(command)
  /\ UNCHANGED <<cycle_vars, entity_vars, now, sched_vars, probe_vars>>

Next ==
  \/ Tick
  \/ StartCycle
  \/ PostPST
  \/ PostStatus
  \/ RaiseInCycle
  \/ AddEntities
  \/ turn_off
  \/ turn_on

Spec == Init /\ [][Next]_vars

(* The client and the coordinator with every exchange recorded: poll *)
(* cycles, and commands sent by the consumers of the client.         *)
WireCommands ==
  { <<"p","l","a","y">>,
    <<"c","C","M","D","_","P","S","T">>,
    <<"f","o","o">> }

InitApi ==
  /\ pc = "idle"
  /\ pst_result = None
  /\ status_result = None
  /\ status = None
  /\ data = EmptyDict
  /\ replaced_keys = {}
  /\ last_update_success = TRUE
  /\ outcome = "none"
  /\ now = 0
  /\ entities_added = FALSE
  /\ _attr_state = None
  /\ _attr_media_position = None
  /\ _attr_media_position_updated_at = None
  /\ _attr_media_duration = None
  /\ last_command = None
  /\ timer = TRUE
  /\ in_flight = 0
  /\ recording = TRUE
  /\ wire = <<>>
  /\ cmd_ret = None
  /\ call = None
  /\ InitConfig
  /\ InitSurface

NextApi ==
  \/ StartCycle
  \/ PostPST
  \/ PostStatus
  \/ RaiseInCycle
  \/ \E command \in WireCommands : send_command(command)

SpecApi == InitApi /\ [][NextApi]_vars

(* api.py: the command each convenience operation sends *)
ConvenienceCommand_swapped ==
  [open_tray |-> <<"T","R","A","Y","O","P","E","N">>,
   close_tray |-> <<"T","R","A","Y","C","L","O","S","E">>,
   toggle_tray |-> <<"O","P","_","C","L">>,
   power_on |-> <<"P","O","W","E","R","O","N">>,
   power_off |-> <<"P","O","W","E","R","O","F","F">>,
   play |-> <<"P","L","A","Y","B","A","C","K">>,
   pause |-> <<"P","A","U","S","E">>,
   stop |-> <<"S","T","O","P">>,
   next_track |-> <<"S","K","I","P","R","E","V">>,
   previous_track |-> <<"S","K","I","P","F","W","D">>]

ConvenienceCommand ==
  [open_tray |-> <<"T","R","A","Y","O","P","E","N">>,
   close_tray |-> <<"T","R","A","Y","C","L","O","S","E">>,
   toggle_tray |-> <<"O","P","_","C","L">>,
   power_on |-> <<"P","O","W","E","R","O","N">>,
   power_off |-> <<"P","O","W","E","R","O","F","F">>,
   play |-> <<"P","L","A","Y","B","A","C","K">>,
   pause |-> <<"P","A","U","S","E">>,
   stop |-> <<"S","T","O","P">>,
   next_track |-> <<"S","K","I","P","F","W","D">>,
   previous_track |-> <<"S","K","I","P","R","E","V">>]

(* api.py: open_tray ... previous_track, called by a consumer of the *)
(* client: one send_command, and its success is returned             *)
CallConvenience(op) ==
  /\ SendCommand(ConvenienceCommand[op])
  /\ call' = IF recording
             THEN Returned(op, ConvenienceCommand[op], Val(cmd_ret')[1])
             ELSE call
  /\ UNCHANGED <<cycle_vars, entity_vars, now, sched_vars, recording,
                 config_vars, surface_vars>>

NextOps == \E op \in DOMAIN ConvenienceCommand : CallConvenience(op)

SpecOps == InitApi /\ [][NextOps]_vars

(* The options flow and the reload that follows an options change. *)

(* what a user may submit for the interval: a value with its Python type; *)
(* a float is given in tenths                                             *)
Typed(type, value) == [type |-> type, value |-> value]

SubmittedValues ==
  {Typed("int", n) :
     n \in (MIN_SCAN_INTERVAL - MaxSlack)..(MAX_SCAN_INTERVAL + MaxSlack)}
    \cup {Typed("float", n) : n \in {0 - 5, 9, 10, 609, 610}}
    \cup {Typed("str", t) :
            t \in {<<"7">>, <<" ", "6", "0", " ">>, <<"6", "1">>, <<"0">>,
                   <<"5", ".", "5">>, <<"x">>, <<>>}}
    \cup {Typed("NoneType", 0)}

(* the forms a user may submit: the interval given, or left out *)
UserInputs ==
  {EmptyDict} \cup {CONF_SCAN_INTERVAL :> Some(v) : v \in SubmittedValues}

(* vol.Coerce(int): int(v), None standing for Invalid (int raised *)
(* ValueError or TypeError)                                       *)
Coerce_int(v) ==
  CASE v.type = "int" -> Some(v.value)
    [] v.type = "float" ->
         Some(IF v.value >= 0 THEN v.value \div 10
              ELSE 0 - ((0 - v.value) \div 10))
    [] v.type = "str" -> int(v.value)
    [] OTHER -> None

options_schema_no_max(current_interval, user_input) ==
  LET v == IF CONF_SCAN_INTERVAL \in DOMAIN user_input
           THEN Val(user_input[CONF_SCAN_INTERVAL])
           ELSE Typed("int", current_interval)
      n == Coerce_int(v)
  IN IF n # None /\ Val(n) >= MIN_SCAN_INTERVAL
     THEN Some(CONF_SCAN_INTERVAL :> n)
     ELSE None

(* config_flow.py: options_schema, built with the interval current when *)
(* the form was shown; the validated dict, or None for Invalid          *)
options_schema(current_interval, user_input) ==
  LET v == IF CONF_SCAN_INTERVAL \in DOMAIN user_input
           THEN Val(user_input[CONF_SCAN_INTERVAL])
           ELSE Typed("int", current_interval)
      n == Coerce_int(v)
  IN IF n # None /\ Val(n) >= MIN_SCAN_INTERVAL /\ Val(n) <= MAX_SCAN_INTERVAL
     THEN Some(CONF_SCAN_INTERVAL :> n)
     ELSE None

(* what the options flow answered last: the form, with the default its *)
(* schema was built with, the rejection of a submitted form, or the    *)
(* entry created from the submitted form                               *)
FlowResult(type, current_interval, user_input) ==
  Some([type |-> type, current_interval |-> current_interval,
        user_input |-> user_input])

(* where the options flow stands: not begun, or at its last answer *)
FlowStep == IF flow_result = None THEN "none" ELSE Val(flow_result).type

(* config_flow.py: async_step_init(None), the user opens the options *)
ShowForm ==
  /\ FlowStep \in {"none", "create_entry"}
  /\ flow_result' =
       FlowResult("form",
                  GetDefault(options, CONF_SCAN_INTERVAL,
                             DEFAULT_SCAN_INTERVAL),
                  None)
  /\ UNCHANGED <<options, update_interval, reload_pending, cycle_vars,
                 entity_vars, now, last_command, sched_vars, api_vars,
                 recording, call, surface_vars>>

(* the submitted form fails the schema of the form shown: the step is *)
(* not called and the form stays open                                 *)
RejectForm(user_input) ==
  /\ FlowStep \in {"form", "invalid"}
  /\ options_schema(Val(flow_result).current_interval, user_input) = None
  /\ flow_result' =
       FlowResult("invalid", Val(flow_result).current_interval,
                  Some(user_input))
  /\ UNCHANGED <<options, update_interval, reload_pending, cycle_vars,
                 entity_vars, now, last_command, sched_vars, api_vars,
                 recording, call, surface_vars>>

(* config_flow.py: async_step_init(user_input) with the validated form: *)
(* the entry's options are replaced, and a change of them calls the     *)
(* entry's update listener                                              *)
async_step_init(user_input) ==
  /\ FlowStep \in {"form", "invalid"}
  /\ LET validated ==
           options_schema(Val(flow_result).current_interval, user_input)
     IN /\ validated # None
        /\ options' = Val(validated)
        /\ reload_pending' = (reload_pending \/ Val(validated) # options)
  /\ flow_result' =
       FlowResult("create_entry", Val(flow_result).current_interval,
                  Some(user_input))
  /\ UNCHANGED <<update_interval, cycle_vars, entity_vars, now,
                 last_command, sched_vars, api_vars, recording, call, surface_vars>>

update_listener_same_interval ==
  /\ reload_pending
  /\ pc = "idle"
  /\ reload_pending' = FALSE
  /\ update_interval' = update_interval
  /\ pc' = "idle"
  /\ pst_result' = None
  /\ status_result' = None
  /\ status' = None
  /\ data' = EmptyDict
  /\ replaced_keys' = {}
  /\ last_update_success' = TRUE
  /\ outcome' = "none"
  /\ entities_added' = FALSE
  /\ _attr_state' = None
  /\ _attr_media_position' = None
  /\ _attr_media_position_updated_at' = None
  /\ _attr_media_duration' = None
  /\ timer' = TRUE
  /\ in_flight' = 0
  /\ UNCHANGED <<options, flow_result, now, last_command, api_vars,
                 recording, call, surface_vars>>

(* __init__.py: update_listener reloads the entry: the platforms are *)
(* unloaded and async_setup_entry builds a new coordinator with the  *)
(* interval of the entry's options, its first refresh due            *)
update_listener ==
  /\ reload_pending
  /\ pc = "idle"
  /\ reload_pending' = FALSE
  /\ update_interval' =
       GetDefault(options, CONF_SCAN_INTERVAL, DEFAULT_SCAN_INTERVAL)
  /\ pc' = "idle"
  /\ pst_result' = None
  /\ status_result' = None
  /\ status' = None
  /\ data' = EmptyDict
  /\ replaced_keys' = {}
  /\ last_update_success' = TRUE
  /\ outcome' = "none"
  /\ entities_added' = FALSE
  /\ _attr_state' = None
  /\ _attr_media_position' = None
  /\ _attr_media_position_updated_at' = None
  /\ _attr_media_duration' = None
  /\ timer' = TRUE
  /\ in_flight' = 0
  /\ UNCHANGED <<options, flow_result, now, last_command, api_vars,
                 recording, call, surface_vars>>

NextConfig ==
  \/ ShowForm
  \/ \E user_input \in UserInputs : RejectForm(user_input)
  \/ \E user_input \in UserInputs : async_step_init(user_input)
  \/ update_listener

SpecConfig == Init /\ [][NextConfig]_vars

(* The configuration flow's user step. *)

CONF_HOST == "host"

(* the hosts a user may name *)
Hosts == {<<"a">>, <<"b">>}

(* what async_step_user may be given *)
UserStepInputs ==
  {None, Some(EmptyDict)} \cup {Some(CONF_HOST :> Some(h)) : h \in Hosts}

(* dict.update *)
Update(d, e) ==
  [k \in DOMAIN d \cup DOMAIN e |-> IF k \in DOMAIN e THEN e[k] ELSE d[k]]

(* config_flow.py: validate_input, player_status being what *)
(* get_player_status returned for the host                  *)
validate_input(user_input, player_status) ==
  LET config ==
        IF player_status = None
        THEN "error" :>
               Some(<<"C", "o", "u", "l", "d", " ", "n", "o", "t", " ", "c", "o", "n", "n", "e", "c", "t", " ", "t", "o", " ", "P", "a", "n", "a", "s", "o", "n", "i", "c", " ", "d", "e", "v", "i", "c", "e", " ", "a", "t", " ">>
                      \o Val(user_input[CONF_HOST]))
        ELSE EmptyDict
  IN Update(config, user_input)

(* what the flow answered: a form with its errors, an abort with its *)
(* reason, or an entry with its data                                 *)
UserFlowResult(type, errors, entry_data) ==
  Some([type |-> type, errors |-> errors, data |-> entry_data])

(* the flow is at its form, and self.user_input is what it has kept *)
FlowOpen == IF user_result = None THEN FALSE ELSE Val(user_result).type = "form"

(* what the submission found: the host asked and the status returned, *)
(* or that the executor job raised                                    *)
Validation(host, raised, player_status) ==
  Some([host |-> host, raised |-> raised, status |-> player_status])

(* info.get("error") is truthy *)
HasError(info) == "error" \in DOMAIN info /\ info["error"] # None

async_step_user_trusting(user_input) ==
  IF user_input = None \/ user_input = Some(EmptyDict)
  THEN /\ user_result' = UserFlowResult("form", EmptyDict, None)
       /\ flow_user_input' = IF FlowOpen THEN flow_user_input ELSE None
       /\ validate_info' = None
       /\ UNCHANGED <<entries, remote_call, cycle_vars, entity_vars, now,
                      last_command, sched_vars, api_vars, recording, call,
                      config_vars>>
  ELSE LET kept == IF FlowOpen /\ flow_user_input # None
                   THEN Update(Val(flow_user_input), Val(user_input))
                   ELSE Val(user_input)
           host == Val(kept[CONF_HOST])
       IN /\ flow_user_input' = Some(kept)
          /\ \/ /\ validate_info' = Validation(host, TRUE, None)
                /\ user_result' =
                     UserFlowResult("form", "base" :> "unknown", None)
                /\ UNCHANGED entries
             \/ \E pst_r \in PstResults, st_r \in StatusResults :
                  LET player_status == PlayerStatusOf[pst_r][st_r]
                      info == kept
                  IN /\ validate_info' =
                          Validation(host, FALSE, player_status)
                     /\ IF HasError(info)
                        THEN /\ user_result' =
                                  UserFlowResult(
                                    "form", "base" :> "cannot_connect", None)
                             /\ UNCHANGED entries
                        ELSE IF host \in entries
                        THEN /\ user_result' =
                                  UserFlowResult(
                                    "abort", "already_configured", None)
                             /\ UNCHANGED entries
                        ELSE /\ user_result' =
                                  UserFlowResult("create_entry", EmptyDict,
                                                 Some(info))
                             /\ entries' = entries \cup {host}
          /\ UNCHANGED <<remote_call, cycle_vars, entity_vars, now,
                         last_command, sched_vars, api_vars, recording, call,
                         config_vars>>

(* config_flow.py: async_step_user; a flow that has created its entry *)
(* or was aborted is over, and the next call is a new flow's first    *)
async_step_user(user_input) ==
  IF user_input = None \/ user_input = Some(EmptyDict)
  THEN /\ user_result' = UserFlowResult("form", EmptyDict, None)
       /\ flow_user_input' = IF FlowOpen THEN flow_user_input ELSE None
       /\ validate_info' = None
       /\ UNCHANGED <<entries, remote_call, cycle_vars, entity_vars, now,
                      last_command, sched_vars, api_vars, recording, call,
                      config_vars>>
  ELSE LET kept == IF FlowOpen /\ flow_user_input # None
                   THEN Update(Val(flow_user_input), Val(user_input))
                   ELSE Val(user_input)
           host == Val(kept[CONF_HOST])
       IN /\ flow_user_input' = Some(kept)
          /\ \/ /\ validate_info' = Validation(host, TRUE, None)
                /\ user_result' =
                     UserFlowResult("form", "base" :> "unknown", None)
                /\ UNCHANGED entries
             \/ \E pst_r \in PstResults, st_r \in StatusResults :
                  LET player_status == PlayerStatusOf[pst_r][st_r]
                      info == validate_input(kept, player_status)
                  IN /\ validate_info' =
                          Validation(host, FALSE, player_status)
                     /\ IF HasError(info)
                        THEN /\ user_result' =
                                  UserFlowResult(
                                    "form", "base" :> "cannot_connect", None)
                             /\ UNCHANGED entries
                        ELSE IF host \in entries
                        THEN /\ user_result' =
                                  UserFlowResult(
                                    "abort", "already_configured", None)
                             /\ UNCHANGED entries
                        ELSE /\ user_result' =
                                  UserFlowResult("create_entry", EmptyDict,
                                                 Some(info))
                             /\ entries' = entries \cup {host}
          /\ UNCHANGED <<remote_call, cycle_vars, entity_vars, now,
                         last_command, sched_vars, api_vars, recording, call,
                         config_vars>>

NextUserFlow == \E user_input \in UserStepInputs : async_step_user(user_input)

SpecUserFlow == Init /\ [][NextUserFlow]_vars

(* The speed select. *)

SPEED_OPTIONS_reversed ==
     (<<"R","E","W"," ","5">> :> <<<<"S","E","A","R","C","H","_","F","W","D","5">>, 24>>)
  @@ (<<"R","E","W"," ","4">> :> <<<<"S","E","A","R","C","H","_","F","W","D","4">>, 23>>)
  @@ (<<"R","E","W"," ","3">> :> <<<<"S","E","A","R","C","H","_","F","W","D","3">>, 22>>)
  @@ (<<"R","E","W"," ","2">> :> <<<<"S","E","A","R","C","H","_","F","W","D","2">>, 21>>)
  @@ (<<"R","E","W"," ","1">> :> <<<<"S","E","A","R","C","H","_","F","W","D","1">>, 20>>)
  @@ (<<"N","o","r","m","a","l">> :> <<<<"P","L","A","Y","B","A","C","K">>, 0>>)
  @@ (<<"F","F"," ","1">> :> <<<<"S","E","A","R","C","H","_","R","E","V","1">>, 10>>)
  @@ (<<"F","F"," ","2">> :> <<<<"S","E","A","R","C","H","_","R","E","V","2">>, 11>>)
  @@ (<<"F","F"," ","3">> :> <<<<"S","E","A","R","C","H","_","R","E","V","3">>, 12>>)
  @@ (<<"F","F"," ","4">> :> <<<<"S","E","A","R","C","H","_","R","E","V","4">>, 13>>)
  @@ (<<"F","F"," ","5">> :> <<<<"S","E","A","R","C","H","_","R","E","V","5">>, 14>>)

(* select.py: display name -> (command, speed_multiplier value) *)
SPEED_OPTIONS ==
     (<<"R","E","W"," ","5">> :> <<<<"S","E","A","R","C","H","_","R","E","V","5">>, 24>>)
  @@ (<<"R","E","W"," ","4">> :> <<<<"S","E","A","R","C","H","_","R","E","V","4">>, 23>>)
  @@ (<<"R","E","W"," ","3">> :> <<<<"S","E","A","R","C","H","_","R","E","V","3">>, 22>>)
  @@ (<<"R","E","W"," ","2">> :> <<<<"S","E","A","R","C","H","_","R","E","V","2">>, 21>>)
  @@ (<<"R","E","W"," ","1">> :> <<<<"S","E","A","R","C","H","_","R","E","V","1">>, 20>>)
  @@ (<<"N","o","r","m","a","l">> :> <<<<"P","L","A","Y","B","A","C","K">>, 0>>)
  @@ (<<"F","F"," ","1">> :> <<<<"S","E","A","R","C","H","_","F","W","D","1">>, 10>>)
  @@ (<<"F","F"," ","2">> :> <<<<"S","E","A","R","C","H","_","F","W","D","2">>, 11>>)
  @@ (<<"F","F"," ","3">> :> <<<<"S","E","A","R","C","H","_","F","W","D","3">>, 12>>)
  @@ (<<"F","F"," ","4">> :> <<<<"S","E","A","R","C","H","_","F","W","D","4">>, 13>>)
  @@ (<<"F","F"," ","5">> :> <<<<"S","E","A","R","C","H","_","F","W","D","5">>, 14>>)

(* the option strings select_option may be given *)
OptionInputs ==
  DOMAIN SPEED_OPTIONS
    \cup {<<"n","o","r","m","a","l">>, <<"N","O","R","M","A","L">>, <<"F","F"," ","6">>, <<"F","F","1">>, <<"R","E","W"," ","0">>, <<"P","L","A","Y","B","A","C","K">>, <<>>}

(* select.py: select_option; an option not listed is logged and dropped *)
select_option(option) ==
  /\ Len(wire) < MaxSelects
  /\ IF option \in DOMAIN SPEED_OPTIONS
     THEN SendCommand(SPEED_OPTIONS[option][1])
     ELSE UNCHANGED <<last_command, api_vars>>
  /\ call' = IF recording THEN Returned("select_option", option, None)
             ELSE call
  /\ UNCHANGED <<cycle_vars, entity_vars, now, sched_vars, recording,
                 config_vars, surface_vars>>

NextSelect == \E option \in OptionInputs : select_option(option)

SpecSelect == InitApi /\ [][NextSelect]_vars

(* The remote entity's send_command. *)

(* the commands a remote call may name, and the command lists *)
RemoteCommands == { <<"p","l","a","y">>, <<"f","o","o">> }

CommandLists ==
  UNION {[1..n -> RemoteCommands] : n \in 0..MaxCommands}

(* a running call of the remote's send_command: its arguments, where *)
(* its two loops stand, and the number of POSTs made before it began *)
RemoteCall(command, num_repeats, repeat, index, start) ==
  Some([command |-> command, num_repeats |-> num_repeats,
        repeat |-> repeat, index |-> index, start |-> start])

(* both loops have run out *)
RemoteDone == Val(remote_call).repeat >= Val(remote_call).num_repeats

RemoteIdle == IF remote_call = None THEN TRUE ELSE RemoteDone

(* remote.py: send_command is entered; an empty list lets the outer *)
(* loop run out with nothing sent                                    *)
remote_send_command(command, num_repeats) ==
  /\ RemoteIdle
  /\ remote_call' =
       RemoteCall(command, num_repeats,
                  IF command = <<>> THEN num_repeats ELSE 0, 0, Len(wire))
  /\ UNCHANGED <<cycle_vars, entity_vars, now, last_command, sched_vars,
                 api_vars, recording, call, config_vars, user_flow_vars>>

remote_send_one_stop_on_failure ==
  /\ remote_call # None
  /\ LET r == Val(remote_call) IN
       /\ r.repeat < r.num_repeats
       /\ SendCommand(r.command[r.index + 1])
       /\ remote_call' =
            IF recording /\ ~Val(cmd_ret')[1]
            THEN RemoteCall(r.command, r.num_repeats, r.num_repeats, 0,
                            r.start)
            ELSE IF r.index + 1 < Len(r.command)
            THEN RemoteCall(r.command, r.num_repeats, r.repeat,
                            r.index + 1, r.start)
            ELSE RemoteCall(r.command, r.num_repeats, r.repeat + 1, 0,
                            r.start)
  /\ UNCHANGED <<cycle_vars, entity_vars, now, sched_vars, recording, call,
                 config_vars, user_flow_vars>>

(* remote.py: one pass of the inner loop: single_command is sent, its *)
(* result logged and dropped, and the loops move on                   *)
remote_send_one ==
  /\ remote_call # None
  /\ LET r == Val(remote_call) IN
       /\ r.repeat < r.num_repeats
       /\ SendCommand(r.command[r.index + 1])
       /\ remote_call' =
            IF r.index + 1 < Len(r.command)
            THEN RemoteCall(r.command, r.num_repeats, r.repeat,
                            r.index + 1, r.start)
            ELSE RemoteCall(r.command, r.num_repeats, r.repeat + 1, 0,
                            r.start)
  /\ UNCHANGED <<cycle_vars, entity_vars, now, sched_vars, recording, call,
                 config_vars, user_flow_vars>>

NextRemote ==
  \/ \E command \in CommandLists, num_repeats \in 0..MaxRepeats :
       remote_send_command(command, num_repeats)
  \/ remote_send_one

SpecRemote == InitApi /\ [][NextRemote]_vars

(* The media player at work with every exchange recorded. *)
NextEntity ==
  \/ StartCycle
  \/ PostPST
  \/ PostStatus
  \/ RaiseInCycle
  \/ AddEntities
  \/ turn_off
  \/ turn_on

SpecEntity == InitApi /\ [][NextEntity]_vars

(* The poll cycles alone, every POST returning: urlopen is given a  *)
(* timeout, so a POST that is under way ends with a response or an  *)
(* exception, and the executor runs the job to its end.             *)
NextLive ==
  \/ StartCycle
  \/ PostPST
  \/ PostStatus
  \/ RaiseInCycle

SpecLive ==
  Init /\ [][NextLive]_vars /\ WF_vars(PostPST) /\ WF_vars(PostStatus)

(* The functions of the client, one of them applied to one input: call *)
(* holds the function, its argument and what it returned.              *)
CommandInputs ==
  DOMAIN COMMANDS
  \cup {lower(name) : name \in DOMAIN COMMANDS}
  \cup { <<"P", "l", "a", "y">>, <<"p", "L", "a", "Y">>,
         <<"c", "C", "M", "D", "_", "P", "S", "T">>,
         <<"c", "C", "M", "D", "_", "R", "C", "_", "F", "O", "O">>,
         <<"c", "C", "M", "D", "_", "p", "l", "a", "y">>,
         <<"c", "c", "m", "d", "_", "x">>,
         <<"C", "C", "M", "D", "_", "P", "L", "A", "Y">>,
         <<"f", "o", "o">>,
         <<"V", "o", "l", " ", "U", "p">>, <<>> }

RawReplies ==
  PstReplies \cup StatusReplies \cup CommandReplies
  \cup {Raised(exception) : exception \in Exceptions}
  \cup { Received(OK),
         Received(OK \o COMMA \o X),
         Received(CRLF \o OK \o CRLF),
         Received(COMMA \o OK \o CRLF),
         Received(<<"0", "0", "\n", "x", "\n">>),
         Received(Body(<<OK, <<>>, X, <<" ", "\t">>, <<"y", ",", "z">>, <<>> >>)),
         Received(Body(<< <<"0", "0", "0">>, X>>)),
         Received(Body(<< <<" ", "0", "0">>, X>>)) }

IntFields ==
  { <<"1", "2", "5">>, <<"-", "5">>, <<"x">>, <<>>,
    <<" ", "1", "2", " ">>, <<"0">>, <<"1", "0">> }

PstLines ==
  LET states == {PlaybackState[m] : m \in DOMAIN PlaybackState}
                  \cup {<<"3">>, <<>>, <<"0", "1">>}
      lines ==
        {Join(<<a, b, c>>, COMMA) :
           a \in states, b \in IntFields, c \in IntFields}
        \cup {Join(<<a, b, c, X>>, COMMA) :
                a \in states, b \in {<<"7">>}, c \in IntFields}
        \cup {Join(<<a, b>>, COMMA) : a \in states, b \in IntFields}
        \cup states
  IN {line \in lines : Strip(line) # <<>>}

StatusLines ==
  LET modes == ModeCodes \cup {<<>>, <<"8">>}
      clocks == {Clock, <<>>, X}
      fields(n, mode, clock) ==
        [i \in 1..n |-> IF i = 4 THEN mode ELSE IF i = 14 THEN clock ELSE X]
  IN {Join(fields(n, mode, clock), COMMA) :
        n \in {4, 13, 14, 15}, mode \in modes, clock \in clocks}

InitPure ==
  /\ pc = "idle"
  /\ pst_result = None
  /\ status_result = None
  /\ status = None
  /\ data = EmptyDict
  /\ replaced_keys = {}
  /\ last_update_success = TRUE
  /\ outcome = "none"
  /\ now = 0
  /\ entities_added = FALSE
  /\ _attr_state = None
  /\ _attr_media_position = None
  /\ _attr_media_position_updated_at = None
  /\ _attr_media_duration = None
  /\ last_command = None
  /\ timer = TRUE
  /\ in_flight = 0
  /\ recording = FALSE
  /\ wire = <<>>
  /\ cmd_ret = None
  /\ call = None
  /\ InitConfig
  /\ InitSurface

state_vars == <<cycle_vars, entity_vars, now, last_command, sched_vars,
                api_vars, recording, config_vars, surface_vars>>

CallApiCmd ==
  /\ call = None
  /\ \E command \in CommandInputs :
       call' = Returned("api_cmd", command, api_cmd(command))
  /\ UNCHANGED state_vars

CallSendRaw ==
  /\ call = None
  /\ \E reply \in RawReplies :
       call' = Returned("_send_raw", reply, _send_raw(reply))
  /\ UNCHANGED state_vars

CallParsePST ==
  /\ call = None
  /\ \E line \in PstLines :
       call' = Returned("ParsePST", line, ParsePST(<<line>>))
  /\ UNCHANGED state_vars

CallParseStatusSimple ==
  /\ call = None
  /\ \E line \in StatusLines :
       call' = Returned("ParseStatusSimple", line, ParseStatusSimple(<<line>>))
  /\ UNCHANGED state_vars

NextPure ==
  \/ CallApiCmd
  \/ CallSendRaw
  \/ CallParsePST
  \/ CallParseStatusSimple

SpecPure == InitPure /\ [][NextPure]_vars

(* The speed projections: the select's current option and the speed *)
(* sensor's value.                                                   *)

(* str(n) of an int *)
DecimalDigits == <<"0", "1", "2", "3", "4", "5", "6", "7", "8", "9">>

RECURSIVE NatDigits(_)
NatDigits(n) ==
  IF n < 10 THEN <<DecimalDigits[n + 1]>>
  ELSE NatDigits(n \div 10) \o <<DecimalDigits[(n % 10) + 1]>>

str(n) == IF n < 0 THEN <<"-">> \o NatDigits(0 - n) ELSE NatDigits(n)

NORMAL_LABEL == <<"N", "o", "r", "m", "a", "l">>

(* select.py: speed_multiplier value -> display name *)
SPEED_VALUE_TO_NAME ==
  [v \in {SPEED_OPTIONS[k][2] : k \in DOMAIN SPEED_OPTIONS} |->
     CHOOSE k \in DOMAIN SPEED_OPTIONS : SPEED_OPTIONS[k][2] = v]

(* data.get("speed_multiplier", 0) *)
SpeedOf(d) ==
  IF "speed_multiplier" \in DOMAIN d THEN d["speed_multiplier"] ELSE Some(0)

(* select.py: PanasonicSpeedSelect.current_option *)
current_option(d) ==
  IF d = EmptyDict THEN None
  ELSE IF SpeedOf(d) = None THEN None
  ELSE LET speed == Val(SpeedOf(d)) IN
       IF speed \in DOMAIN SPEED_VALUE_TO_NAME
       THEN Some(SPEED_VALUE_TO_NAME[speed])
       ELSE Some(NORMAL_LABEL)

speed_native_value_compact(d) ==
  IF d = EmptyDict THEN None
  ELSE IF SpeedOf(d) = None THEN None
  ELSE LET speed == Val(SpeedOf(d)) IN
       IF speed = 0 THEN Some(NORMAL_LABEL)
       ELSE IF 10 <= speed /\ speed <= 14
       THEN Some(<<"F", "F">> \o str(speed - 9))
       ELSE IF 15 <= speed /\ speed <= 18
       THEN Some(<<"S", "l", "o", "w">> \o str(speed - 14))
       ELSE IF 20 <= speed /\ speed <= 24
       THEN Some(<<"R", "E", "W">> \o str(speed - 19))
       ELSE Some(<<"U", "n", "k", "n", "o", "w", "n", " ", "(">>
                   \o str(speed) \o <<")">>)

(* sensor.py: PanasonicSpeedSensor.native_value *)
speed_native_value(d) ==
  IF d = EmptyDict THEN None
  ELSE IF SpeedOf(d) = None THEN None
  ELSE LET speed == Val(SpeedOf(d)) IN
       IF speed = 0 THEN Some(NORMAL_LABEL)
       ELSE IF 10 <= speed /\ speed <= 14
       THEN Some(<<"F", "F", " ">> \o str(speed - 9))
       ELSE IF 15 <= speed /\ speed <= 18
       THEN Some(<<"S", "l", "o", "w", " ">> \o str(speed - 14))
       ELSE IF 20 <= speed /\ speed <= 24
       THEN Some(<<"R", "E", "W", " ">> \o str(speed - 19))
       ELSE Some(<<"U", "n", "k", "n", "o", "w", "n", " ", "(">>
                   \o str(speed) \o <<")">>)

(* the mappings the projections are shown: empty, the unknown sentinel, *)
(* one without the key, one with the key None, and every speed          *)
SpeedData ==
  {EmptyDict, UnknownData, [state |-> Some("IDLE")],
   [speed_multiplier |-> None]}
    \cup {[speed_multiplier |-> Some(v)] : v \in (0 - MaxSpeed)..MaxSpeed}

CallCurrentOption ==
  /\ call = None
  /\ \E d \in SpeedData :
       call' = Returned("current_option", d, current_option(d))
  /\ UNCHANGED state_vars

CallSpeedNativeValue ==
  /\ call = None
  /\ \E d \in SpeedData :
       call' = Returned("native_value", d, speed_native_value(d))
  /\ UNCHANGED state_vars

NextSpeed ==
  \/ CallCurrentOption
  \/ CallSpeedNativeValue

SpecSpeed == InitPure /\ [][NextSpeed]_vars

(* The compatibility operations of the client. *)

(* api.py: get_status: state_map *)
state_map ==
  [STOPPED |-> <<"s", "t", "o", "p", "p", "e", "d">>, PLAYING |-> <<"p", "l", "a", "y", "i", "n", "g">>, PAUSED |-> <<"p", "a", "u", "s", "e", "d">>,
   FAST_FORWARD |-> <<"p", "l", "a", "y", "i", "n", "g">>, REWIND |-> <<"p", "l", "a", "y", "i", "n", "g">>,
   SLOW_MOTION |-> <<"p", "l", "a", "y", "i", "n", "g">>]

get_status_of_state_first(player_status) ==
  IF player_status = None THEN <<<<"e", "r", "r", "o", "r">>, 0 - 1, 0 - 1>>
  ELSE LET s == Val(player_status) IN
       IF ~s.is_on /\ s.playback_state \notin DOMAIN state_map
       THEN <<<<"s", "t", "a", "n", "d", "b", "y">>, 0, 0>>
       ELSE <<IF s.playback_state \in DOMAIN state_map
              THEN state_map[s.playback_state] ELSE <<"o", "f", "f">>,
              s.position_seconds, 0>>

(* api.py: get_status, of what get_player_status returned *)
get_status_of(player_status) ==
  IF player_status = None THEN <<<<"e", "r", "r", "o", "r">>, 0 - 1, 0 - 1>>
  ELSE LET s == Val(player_status) IN
       IF ~s.is_on THEN <<<<"s", "t", "a", "n", "d", "b", "y">>, 0, 0>>
       ELSE <<IF s.playback_state \in DOMAIN state_map
              THEN state_map[s.playback_state] ELSE <<"o", "f", "f">>,
              s.position_seconds, 0>>

(* what the two POSTs of a get_player_status may return *)
CompatPstResults ==
  PstResults
    \cup {[success |-> TRUE, code |-> Some(OK), lines |-> <<line>>] :
            line \in PstLines}

(* api.py: get_status *)
get_status ==
  /\ call = None
  /\ \E pst_r \in CompatPstResults, st_r \in StatusResults :
       LET player_status == get_player_status(pst_r, st_r) IN
         call' = Returned("get_status", player_status,
                          get_status_of(player_status))
  /\ UNCHANGED state_vars

(* api.py: get_play_status returns self.get_status() *)
get_play_status ==
  /\ call = None
  /\ \E pst_r \in CompatPstResults, st_r \in StatusResults :
       LET player_status == get_player_status(pst_r, st_r) IN
         call' = Returned("get_play_status", player_status,
                          get_status_of(player_status))
  /\ UNCHANGED state_vars

NextCompat ==
  \/ get_status
  \/ get_play_status

SpecCompat == InitPure /\ [][NextCompat]_vars

TypeOK ==
  /\ pc \in {"idle", "pst", "status"}
  /\ outcome \in {"none", "published", "raised"}
  /\ last_update_success \in BOOLEAN
  /\ now \in 0..MaxTime
  /\ entities_added \in BOOLEAN
  /\ timer \in BOOLEAN
  /\ in_flight \in 0..MaxInFlight
  /\ recording \in BOOLEAN
  /\ Len(wire) <= MaxWire
  /\ reload_pending \in BOOLEAN
  /\ update_interval \in Int

-----------------------------------------------------------------------------
(* Properties *)

(* the last cycle returned a mapping and no cycle is running: pst_result *)
(* and status_result are the two results that cycle got                  *)
CycleDone == pc = "idle" /\ outcome = "published"

pst == Val(pst_result)
st == Val(status_result)

(* C1: get_player_status returns None whenever the PST POST or the        *)
(* STATUS_SIMPLE POST reports success=false, in every combination; no     *)
(* PlayerStatus is returned then.                                         *)
C1_FailedPostGivesNone ==
  CycleDone /\ (~pst.success \/ ~st.success) => status = None

(* PST failed with a non-"00" code while STATUS_SIMPLE succeeded with data *)
C1_Witness ==
  /\ CycleDone
  /\ ~pst.success /\ pst.code = Some(<<"0", "1">>)
  /\ st.success /\ st.lines # <<>>
  /\ status = None

C3_AbsentPublishesUnknown ==
  CycleDone /\ status = None =>
    /\ data["state"] = None
    /\ data["is_on"] = None
    /\ data["device_mode"] = None
    /\ data["playback_state"] = None
    /\ data["media_position"] = Some(0)
    /\ data["media_duration"] = Some(0)
    /\ data["speed_multiplier"] = Some(0)
    /\ data["tray_open"] = None
    /\ data["clock_time"] = None
    /\ data["state"] # Some("OFF")

(* both POSTs failed after a cycle that had published a full mapping *)
C3_Witness ==
  /\ CycleDone /\ status = None
  /\ ~pst.success /\ ~st.success
  /\ "raw_pst" \in replaced_keys
  /\ data["state"] = None /\ data["is_on"] = None

(* keys of the collaborator interface, and those the unknown sentinel has *)
AllKeys ==
  {"state", "is_on", "device_mode", "device_mode_value", "playback_state",
   "playback_state_value", "media_position", "media_position_updated_at",
   "media_duration", "speed_multiplier", "tray_open", "clock_time",
   "raw_pst", "raw_status"}

SentinelKeys ==
  {"state", "is_on", "device_mode", "playback_state", "media_position",
   "media_duration", "speed_multiplier", "tray_open", "clock_time"}

C5_ExceptionKeepsMapping ==
  [][(pc # "idle" /\ pc' = "idle" /\ outcome' = "raised")
       => (data' = data /\ ~last_update_success')]_vars

(* a cycle raised after an earlier one had published a full mapping, *)
(* which is still there                                              *)
C5_Witness ==
  /\ pc = "idle" /\ outcome = "raised"
  /\ ~last_update_success
  /\ DOMAIN data = AllKeys
  /\ data["state"] # None

(* C6: each completed cycle replaces the mapping: it holds only keys and *)
(* values computed from the latest two responses; nothing of an earlier  *)
(* successful cycle survives an absent-status cycle, and a successful    *)
(* cycle publishes the full state.                                       *)
C6_PublishReplaces ==
  CycleDone =>
    IF ~pst.success \/ ~st.success
    THEN /\ DOMAIN data = SentinelKeys
         /\ \A k \in AllKeys \ SentinelKeys : Get(data, k) = None
    ELSE /\ DOMAIN data = AllKeys
         /\ data["raw_pst"] =
              (IF pst.lines = <<>> THEN None ELSE Some(pst.lines[1]))
         /\ data["raw_status"] =
              (IF st.lines = <<>> THEN None ELSE Some(st.lines[1]))
         /\ data["device_mode_value"] =
              Some(DeviceMode[Val(data["device_mode"])])
         /\ data["playback_state_value"] =
              Some(PlaybackState[Val(data["playback_state"])])
         /\ Val(data["media_position_updated_at"]) <= now

(* an absent-status cycle replaced a mapping that had all fourteen keys *)
C6_Witness ==
  /\ CycleDone /\ status = None
  /\ replaced_keys = AllKeys
  /\ DOMAIN data = SentinelKeys

(* C7 as claimed: after every completed cycle the mapping contains every *)
(* key of the collaborator interface.                                    *)
C7_AllKeysAlways == CycleDone => AllKeys \subseteq DOMAIN data

(* C7 amended: after an absent status the mapping contains exactly the   *)
(* nine keys of the unknown sentinel, the other five being omitted (a    *)
(* reader using get sees None for them); after a present status it       *)
(* contains all fourteen keys.                                           *)
C7_KeysByStatus ==
  CycleDone =>
    /\ SentinelKeys \subseteq DOMAIN data
    /\ status # None => DOMAIN data = AllKeys
    /\ status = None =>
         \A k \in AllKeys \ SentinelKeys :
           k \notin DOMAIN data /\ Get(data, k) = None

(* the first refresh got no status: nine keys, raw_pst not among them *)
C7_Witness ==
  /\ CycleDone /\ status = None
  /\ replaced_keys = {}
  /\ Cardinality(DOMAIN data) = 9
  /\ "raw_pst" \notin DOMAIN data

(* the mapping is the unknown sentinel *)
IsUnknownSentinel(d) ==
  /\ DOMAIN d # {}
  /\ Get(d, "state") = None
  /\ Get(d, "is_on") = None
  /\ Get(d, "device_mode") = None
  /\ Get(d, "tray_open") = None

(* C8: whenever the published mapping is empty or the unknown sentinel, *)
(* the media player's state is not OFF, the remote's is_on is None and  *)
(* the tray switch's is_on is None.                                     *)
C8_AbsenceIsNotOff ==
  entities_added /\ (DOMAIN data = {} \/ IsUnknownSentinel(data)) =>
    /\ _attr_state # Some("OFF")
    /\ RemoteIsOn(data) = None
    /\ TraySwitchIsOn(data) = None

(* C9: the published state of a present status follows the first-match *)
(* precedence on is_on and device_mode, and is one of OFF, IDLE,       *)
(* PLAYING, PAUSED.                                                    *)
C9_StatePrecedence ==
  CycleDone /\ status # None =>
    LET mode == Val(status).device_mode
        on == Val(status).is_on
        state == Val(data["state"])
    IN /\ data["state"] # None
       /\ state \in {"OFF", "IDLE", "PLAYING", "PAUSED"}
       /\ ~on => state = "OFF"
       /\ on /\ mode \in {"TRAY_OPEN", "IDLE"} => state = "IDLE"
       /\ on /\ mode = "PLAYING" => state = "PLAYING"
       /\ on /\ mode = "PAUSED" => state = "PAUSED"
       /\ on /\ mode \in {"FAST_FORWARD", "REWIND", "SLOW_MOTION"}
            => state = "PLAYING"
       /\ on /\ mode = "UNKNOWN" => state = "IDLE"

(* the device is rewinding while PST says STOPPED: published as PLAYING *)
C9_Witness ==
  /\ CycleDone /\ status # None
  /\ Val(status).device_mode = "REWIND"
  /\ Val(status).playback_state = "STOPPED"
  /\ data["state"] = Some("PLAYING")

(* C10: both POSTs succeed and field 3 of a STATUS_SIMPLE line of at *)
(* least 14 fields is "07": is_on False and state OFF are published, *)
(* whatever the PST line holds.                                      *)
C10_StandbyIsOff ==
  CycleDone /\ pst.success /\ st.success /\ st.lines # <<>>
            /\ Len(Split(st.lines[1], COMMA)) >= 14
            /\ Split(st.lines[1], COMMA)[4] = <<"0", "7">>
    => data["is_on"] = Some(FALSE) /\ data["state"] = Some("OFF")

(* STANDBY while the PST line says PLAYING at 125 s *)
C10_Witness ==
  /\ CycleDone /\ pst.success /\ st.success /\ st.lines # <<>>
  /\ Split(st.lines[1], COMMA)[4] = <<"0", "7">>
  /\ Len(Split(st.lines[1], COMMA)) >= 14
  /\ data["playback_state"] = Some("PLAYING")
  /\ data["media_position"] = Some(125)
  /\ data["state"] = Some("OFF")

-----------------------------------------------------------------------------
(* Properties of the scheduling, the wire and the client's functions *)

Last(s) == s[Len(s)]
CycleExchanges == SelectSeq(wire, LAMBDA e : e.caller = "get_player_status")
CommandExchanges == SelectSeq(wire, LAMBDA e : e.caller = "send_command")
Reported(result) == Some(<<result.success, result.code>>)
TransportFailure == [success |-> FALSE, code |-> None, lines |-> <<>>]

(* C11: a coordinator never overlaps itself: at most one poll cycle is in *)
(* flight at any time, and while one is in flight no further refresh is   *)
(* due, so the first POST of the next cycle comes only after this cycle   *)
(* has published or has reported failure, however long the cycle lasts.   *)
C11_NoOverlap ==
  /\ in_flight <= 1
  /\ (in_flight = 1) = (pc # "idle")
  /\ pc # "idle" => ~timer

(* a later cycle is in flight, before its first POST, after the cycle *)
(* before it reported failure and time has passed                     *)
C11_Witness ==
  /\ pc = "pst" /\ in_flight = 1
  /\ outcome = "raised" /\ ~last_update_success
  /\ now = MaxTime

(* C12: there is no lock between commands and polls: while a poll cycle *)
(* is in flight (before its PST POST, or between its two POSTs) a       *)
(* send_command can be made; the cycle still sends its own two bodies   *)
(* and returns what its own two results decode to, and the command      *)
(* returns the (success, code) of its own POST.                         *)
C12_CommandsRacePolls ==
  /\ pc # "idle" /\ CanPost =>
       ENABLED (\E command \in WireCommands : send_command(command))
  /\ \A i \in DOMAIN CycleExchanges :
       CycleExchanges[i].data \in {pst_data, status_data}
  /\ CycleDone =>
       LET n == Len(CycleExchanges) IN
         /\ n >= 2
         /\ CycleExchanges[n - 1].data = pst_data
         /\ CycleExchanges[n].data = status_data
         /\ status = PlayerStatusOf[CycleExchanges[n - 1].result]
                                   [CycleExchanges[n].result]
  /\ cmd_ret # None =>
       /\ CommandExchanges # <<>>
       /\ cmd_ret = Reported(Last(CommandExchanges).result)

(* the command's POST reached the device between the PST POST and the *)
(* STATUS_SIMPLE POST of a cycle; the command failed, the cycle       *)
(* published a status                                                 *)
C12_Witness ==
  /\ CycleDone
  /\ Len(wire) = 3
  /\ wire[1].caller = "get_player_status" /\ wire[1].data = pst_data
  /\ wire[2].caller = "send_command"
  /\ wire[3].caller = "get_player_status" /\ wire[3].data = status_data
  /\ cmd_ret = Some(<<FALSE, None>>)
  /\ status # None

(* C13: nothing is retried: a step makes at most one POST; the PST POST *)
(* of a cycle always takes the cycle on to its STATUS_SIMPLE POST and   *)
(* the STATUS_SIMPLE POST always ends the cycle, whether they failed or *)
(* not, so a cycle makes at most one of each; a send_command's one POST *)
(* is reported, failed or not, in the step that made it.                *)
C13_NoRetry ==
  [][/\ Len(wire') <= Len(wire) + 1
     /\ wire' # wire =>
          LET e == Last(wire') IN
            /\ wire' = Append(wire, e)
            /\ e.caller = "get_player_status" =>
                 \/ pc = "pst" /\ pc' = "status" /\ e.data = pst_data
                 \/ pc = "status" /\ pc' = "idle" /\ e.data = status_data
            /\ e.caller = "send_command" => cmd_ret' = Reported(e.result)
    ]_vars

(* a command failed and was sent once; then the PST POST of a cycle *)
(* failed, was sent once, and the cycle went on                     *)
C13_Witness ==
  /\ Len(wire) = 2
  /\ wire[1].caller = "send_command" /\ ~wire[1].result.success
  /\ wire[2].caller = "get_player_status" /\ ~wire[2].result.success
  /\ wire[2].data = pst_data
  /\ pc = "status"

(* C14: command resolution is total and follows three rules in order:  *)
(* an input whose upper-case form is a key of the table resolves to the *)
(* table's token (play, PLAY and MEDIA_PLAY all to cCMD_RC_PLAYBACK);   *)
(* otherwise an input that begins with exactly cCMD_ is returned        *)
(* unchanged; otherwise the result is cCMD_RC_ followed by the          *)
(* upper-case input.                                                    *)
Called(fn) == call # None /\ Val(call).fn = fn
call_arg == Val(call).arg
call_ret == Val(call).ret

PLAYBACK ==
  <<"c", "C", "M", "D", "_", "R", "C", "_",
    "P", "L", "A", "Y", "B", "A", "C", "K">>

C14_ResolutionRules ==
  Called("api_cmd") =>
    /\ IF upper(call_arg) \in DOMAIN COMMANDS
       THEN call_ret = COMMANDS[upper(call_arg)]
       ELSE IF Len(call_arg) >= 5 /\ SubSeq(call_arg, 1, 5) = cCMD_
       THEN call_ret = call_arg
       ELSE call_ret = cCMD_RC_ \o upper(call_arg)
    /\ call_arg \in {<<"p", "l", "a", "y">>, <<"P", "L", "A", "Y">>,
                     <<"M", "E", "D", "I", "A", "_", "P", "L", "A", "Y">>}
         => call_ret = PLAYBACK
    /\ call_arg = <<"c", "C", "M", "D", "_", "p", "l", "a", "y">>
         => call_ret = call_arg
    /\ call_arg = <<"c", "c", "m", "d", "_", "x">>
         => call_ret = <<"c", "C", "M", "D", "_", "R", "C", "_",
                         "C", "C", "M", "D", "_", "X">>

(* the lower-case alias play was resolved *)
C14_Witness ==
  /\ Called("api_cmd")
  /\ call_arg = <<"p", "l", "a", "y">>
  /\ call_ret = PLAYBACK

(* C15: send_command(name) makes exactly one POST, whose body is        *)
(* <token>.x=100&<token>.y=100 for the token name resolves to, and      *)
(* returns the (success, response_code) of that POST: (False, None) on  *)
(* a transport failure.                                                 *)
ExpectedBody ==
  (<<"p", "l", "a", "y">> :>
     <<"c", "C", "M", "D", "_", "R", "C", "_", "P", "L", "A", "Y", "B", "A",
       "C", "K", ".", "x", "=", "1", "0", "0", "&",
       "c", "C", "M", "D", "_", "R", "C", "_", "P", "L", "A", "Y", "B", "A",
       "C", "K", ".", "y", "=", "1", "0", "0">>)
  @@ (<<"c", "C", "M", "D", "_", "P", "S", "T">> :>
     <<"c", "C", "M", "D", "_", "P", "S", "T", ".", "x", "=", "1", "0", "0",
       "&", "c", "C", "M", "D", "_", "P", "S", "T", ".", "y", "=", "1", "0",
       "0">>)
  @@ (<<"f", "o", "o">> :>
     <<"c", "C", "M", "D", "_", "R", "C", "_", "F", "O", "O", ".", "x", "=",
       "1", "0", "0", "&", "c", "C", "M", "D", "_", "R", "C", "_", "F", "O",
       "O", ".", "y", "=", "1", "0", "0">>)

C15_Returned ==
  /\ \A i \in DOMAIN CommandExchanges :
       CommandExchanges[i].data = ExpectedBody[Val(CommandExchanges[i].command)]
  /\ cmd_ret # None =>
       /\ CommandExchanges # <<>>
       /\ Last(CommandExchanges).command = last_command
       /\ cmd_ret = Some(<<Last(CommandExchanges).result.success,
                           Last(CommandExchanges).result.code>>)
       /\ Last(CommandExchanges).result = TransportFailure
            => cmd_ret = Some(<<FALSE, None>>)
  /\ last_command # None => cmd_ret # None

C15_OnePost ==
  \/ last_command' = last_command /\ cmd_ret' = cmd_ret
  \/ /\ Len(wire') = Len(wire) + 1
     /\ Last(wire').caller = "send_command"
     /\ Last(wire').command = last_command'
     /\ SubSeq(wire', 1, Len(wire)) = wire

C15_OnePostWithBodyAndReturn == []C15_Returned /\ [][C15_OnePost]_vars

(* foo was sent, the device answered FE, and (False, "FE") was returned *)
C15_Witness ==
  /\ wire # <<>>
  /\ Last(wire).caller = "send_command"
  /\ Last(wire).command = Some(<<"f", "o", "o">>)
  /\ Last(wire).result.code = Some(<<"F", "E">>)
  /\ cmd_ret = Some(<<FALSE, Some(<<"F", "E">>)>>)

(* C16: the same command name resolves to the same token every time:   *)
(* any two POSTs made for one name carry the same body, whatever was    *)
(* sent, polled, failed or answered in between.                         *)
C16_SameBodyEveryTime ==
  \A i, j \in DOMAIN wire :
    /\ wire[i].caller = "send_command"
    /\ wire[j].caller = "send_command"
    /\ wire[i].command = wire[j].command
    => wire[i].data = wire[j].data

(* play was sent twice, a failed POST of a poll cycle between the two, *)
(* and the two answers differ: two POSTs with one body                 *)
C16_Witness ==
  /\ Len(wire) = 3
  /\ wire[1].caller = "send_command" /\ wire[3].caller = "send_command"
  /\ wire[1].command = Some(<<"p", "l", "a", "y">>)
  /\ wire[3].command = wire[1].command
  /\ wire[2].caller = "get_player_status" /\ ~wire[2].result.success
  /\ wire[1].result # wire[3].result
  /\ wire[1].data = wire[3].data

(* C17: the transport splits the body on CRLF; response_code is the part *)
(* of the first line before its first comma, or the whole first line     *)
(* when it has none; data_lines are the later lines that are not blank,  *)
(* in order; success is exactly response_code = "00". The body           *)
(* "01,extra\r\nlinedata\r\n" gives "01", ["linedata"], success False;   *)
(* an empty body gives success False.                                    *)
NotBlank(line) == \E i \in 1..Len(line) : line[i] \notin Whitespace

C17_TransportParsing ==
  Called("_send_raw") /\ ~call_arg.error =>
    LET lines == Split(call_arg.body, CRLF)
        first == lines[1]
    IN /\ call_ret.code # None
       /\ Find(Val(call_ret.code), COMMA) = 0
       /\ \/ Val(call_ret.code) = first
          \/ startswith(first, Val(call_ret.code) \o COMMA)
       /\ call_ret.success = (Val(call_ret.code) = <<"0", "0">>)
       /\ call_ret.lines = SelectSeq(Tail(lines), NotBlank)
       /\ call_arg.body = <<"0", "1", ",", "e", "x", "t", "r", "a", "\r", "\n",
                            "l", "i", "n", "e", "d", "a", "t", "a", "\r", "\n">>
            => call_ret = [success |-> FALSE, code |-> Some(<<"0", "1">>),
                           lines |-> << <<"l", "i", "n", "e", "d", "a", "t",
                                          "a">> >>]
       /\ call_arg.body = <<>> => ~call_ret.success

(* a body with blank lines among its data lines was parsed *)
C17_Witness ==
  /\ Called("_send_raw") /\ ~call_arg.error
  /\ Len(Split(call_arg.body, CRLF)) > Len(call_ret.lines) + 2
  /\ Len(call_ret.lines) = 2
  /\ call_ret.success

(* C18: every failure of the network level, whichever except clause it *)
(* ends in, is turned into (False, None, []); nothing else comes out   *)
(* of _send_raw.                                                       *)
C18_FailureCollapsed ==
  Called("_send_raw") /\ call_arg.error => call_ret = TransportFailure

(* the POST ended in HTTPError *)
C18_Witness ==
  /\ Called("_send_raw")
  /\ call_arg = Raised("HTTPError")
  /\ call_ret = TransportFailure

(* C19: PST decoding is total and defensive field by field: a line of    *)
(* fewer than three fields gives (UNKNOWN, 0, 0); otherwise playback     *)
(* state is the member whose value is field 0 (UNKNOWN when there is     *)
(* none), position is the integer field 1 holds or 0, speed the integer  *)
(* field 2 holds or 0, each on its own. "1,125,0" gives PLAYING, 125, 0. *)
IntOrZero(field) == IF int(field) = None THEN 0 ELSE Val(int(field))

C19_PstDecoding ==
  Called("ParsePST") =>
    LET fields == Split(call_arg, COMMA) IN
      /\ Len(fields) < 3 =>
           /\ call_ret.playback_state = "UNKNOWN"
           /\ call_ret.position_seconds = 0
           /\ call_ret.speed_multiplier = 0
      /\ Len(fields) >= 3 =>
           /\ \A m \in DOMAIN PlaybackState :
                PlaybackState[m] = fields[1] => call_ret.playback_state = m
           /\ (\A m \in DOMAIN PlaybackState : PlaybackState[m] # fields[1])
                => call_ret.playback_state = "UNKNOWN"
           /\ call_ret.position_seconds = IntOrZero(fields[2])
           /\ call_ret.speed_multiplier = IntOrZero(fields[3])
      /\ call_arg = <<"1", ",", "1", "2", "5", ",", "0">> =>
           /\ call_ret.playback_state = "PLAYING"
           /\ call_ret.position_seconds = 125
           /\ call_ret.speed_multiplier = 0
      /\ call_arg = <<"2", ",", "x", ",", "1", "0">> =>
           /\ call_ret.playback_state = "PAUSED"
           /\ call_ret.position_seconds = 0
           /\ call_ret.speed_multiplier = 10

(* field 1 is not an integer and field 2 is: position 0, speed 10 *)
C19_Witness ==
  /\ Called("ParsePST")
  /\ call_arg = <<"2", ",", "x", ",", "1", "0">>
  /\ call_ret.position_seconds = 0
  /\ call_ret.speed_multiplier = 10

(* C20: STATUS_SIMPLE decoding is total: a line of fewer than 14 fields *)
(* gives (UNKNOWN, no clock); otherwise device_mode is the member whose *)
(* value is field 3 (UNKNOWN when there is none) and clock_time is      *)
(* field 13, or absent when field 13 is empty. Field 3 "08" and field   *)
(* 13 "14:32" give PLAYING and "14:32".                                 *)
C20_StatusDecoding ==
  Called("ParseStatusSimple") =>
    LET fields == Split(call_arg, COMMA) IN
      /\ Len(fields) < 14 =>
           /\ call_ret.device_mode = "UNKNOWN"
           /\ call_ret.clock_time = None
      /\ Len(fields) >= 14 =>
           /\ \A m \in DOMAIN DeviceMode :
                DeviceMode[m] = fields[4] => call_ret.device_mode = m
           /\ (\A m \in DOMAIN DeviceMode : DeviceMode[m] # fields[4])
                => call_ret.device_mode = "UNKNOWN"
           /\ call_ret.clock_time =
                IF fields[14] = <<>> THEN None ELSE Some(fields[14])
      /\ call_arg = StatusLine(<<"0", "8">>, <<"1", "4", ":", "3", "2">>) =>
           /\ call_ret.device_mode = "PLAYING"
           /\ call_ret.clock_time = Some(<<"1", "4", ":", "3", "2">>)

(* a line of 14 fields whose field 13 is empty: the clock is absent *)
C20_Witness ==
  /\ Called("ParseStatusSimple")
  /\ Len(Split(call_arg, COMMA)) = 14
  /\ Split(call_arg, COMMA)[14] = <<>>
  /\ call_ret.device_mode = "PLAYING"
  /\ call_ret.clock_time = None

-----------------------------------------------------------------------------
(* Properties of the published values *)

(* C21 as claimed: every PlayerStatus returned, and every media_position *)
(* published, has a position that is not negative, whatever PST line the *)
(* device sent.                                                          *)
C21_PositionNotNegative ==
  /\ status # None => Val(status).position_seconds >= 0
  /\ Get(data, "media_position") # None =>
       Val(Get(data, "media_position")) >= 0

(* C22: in every PlayerStatus returned, is_on is exactly device_mode #   *)
(* STANDBY: also for a short STATUS_SIMPLE line, no line at all, or a    *)
(* mode code that no member has (device_mode UNKNOWN, is_on True).       *)
C22_IsOnIffNotStandby ==
  status # None =>
    /\ Val(status).is_on = (Val(status).device_mode # "STANDBY")
    /\ (CycleDone /\ (st.lines = <<>> \/ Len(Split(st.lines[1], COMMA)) < 14)) =>
         Val(status).device_mode = "UNKNOWN" /\ Val(status).is_on

(* a status was returned for a STATUS_SIMPLE line of four fields *)
C22_Witness ==
  /\ CycleDone /\ status # None
  /\ st.lines # <<>> /\ Len(Split(st.lines[1], COMMA)) = 4
  /\ Val(status).device_mode = "UNKNOWN"
  /\ Val(status).is_on

(* C24: media_duration is 0 in every mapping a poll cycle published, *)
(* whatever the device answered and whatever the position is.        *)
C24_DurationIsZero ==
  /\ DOMAIN data # {} => Get(data, "media_duration") = Some(0)
  /\ entities_added => _attr_media_duration = Some(0)

(* a cycle published position 125 with duration 0 *)
C24_Witness ==
  /\ CycleDone
  /\ Get(data, "media_position") = Some(125)
  /\ Get(data, "media_duration") = Some(0)

(* C28: the published state is OFF only when the latest cycle decoded   *)
(* device mode STANDBY: state OFF or is_on False in the mapping implies *)
(* device_mode STANDBY (and is_on False), from a successful             *)
(* STATUS_SIMPLE POST whose line has 14 fields with 07 in field 3.      *)
C28_OffOnlyWhenStandby ==
  Get(data, "state") = Some("OFF") \/ Get(data, "is_on") = Some(FALSE) =>
    /\ Get(data, "is_on") = Some(FALSE)
    /\ Get(data, "state") = Some("OFF")
    /\ Get(data, "device_mode") = Some("STANDBY")
    /\ CycleDone =>
         /\ pst.success /\ st.success
         /\ st.lines # <<>>
         /\ Len(Split(st.lines[1], COMMA)) >= 14
         /\ Split(st.lines[1], COMMA)[4] = <<"0", "7">>

(* a cycle decoded STANDBY and published OFF *)
C28_Witness ==
  /\ CycleDone
  /\ Get(data, "state") = Some("OFF")
  /\ Get(data, "device_mode") = Some("STANDBY")

(* C29: when both POSTs succeed and the STATUS_SIMPLE line has fewer    *)
(* than 14 fields or a mode code that no member has, the cycle does not *)
(* publish the unknown sentinel: it publishes is_on True, device_mode   *)
(* UNKNOWN, device_mode_value FF, tray_open False and state IDLE.       *)
C29_ShortLinePublishesIdle ==
  ( /\ CycleDone
    /\ pst.success /\ st.success
    /\ st.lines # <<>>
    /\ \/ Len(Split(st.lines[1], COMMA)) < 14
       \/ \A m \in DOMAIN DeviceMode :
            DeviceMode[m] # Split(st.lines[1], COMMA)[4] )
  => /\ data # UnknownData
     /\ Get(data, "is_on") = Some(TRUE)
     /\ Get(data, "device_mode") = Some("UNKNOWN")
     /\ Get(data, "device_mode_value") = Some(<<"F", "F">>)
     /\ Get(data, "tray_open") = Some(FALSE)
     /\ Get(data, "state") = Some("IDLE")

(* the line x,x,x,07 was published as UNKNOWN and IDLE *)
C29_Witness ==
  /\ CycleDone
  /\ pst.success /\ st.success
  /\ st.lines = << <<"x", ",", "x", ",", "x", ",", "0", "7">> >>
  /\ Get(data, "state") = Some("IDLE")
  /\ Get(data, "is_on") = Some(TRUE)

(* C26: get_player_status sends its two POSTs one after the other, PST *)
(* first: while the cycle is between them the latest exchange of the   *)
(* cycle is the PST one, already answered; every STATUS_SIMPLE         *)
(* exchange follows a PST exchange; a cycle that returned made both,   *)
(* also when the first reported failure, and then returned None.       *)
C26_TwoPostsInOrder ==
  LET n == Len(CycleExchanges) IN
    /\ pc = "status" =>
         /\ n >= 1
         /\ CycleExchanges[n].data = pst_data
         /\ CycleExchanges[n].result = pst
    /\ \A i \in 1..n :
         CycleExchanges[i].data = status_data =>
           i > 1 /\ CycleExchanges[i - 1].data = pst_data
    /\ CycleDone =>
         /\ n >= 2
         /\ CycleExchanges[n - 1].data =
              <<"c", "C", "M", "D", "_", "P", "S", "T", ".", "x", "=", "1",
                "0", "0", "&", "c", "C", "M", "D", "_", "P", "S", "T", ".",
                "y", "=", "1", "0", "0">>
         /\ CycleExchanges[n].data = RequestData(RC(
              <<"S", "T", "A", "T", "U", "S", "_", "S", "I", "M", "P", "L",
                "E">>))
         /\ ~CycleExchanges[n - 1].result.success => status = None

(* the PST POST failed in the transport, the STATUS_SIMPLE POST was sent *)
(* all the same and succeeded, and None was returned                     *)
C26_Witness ==
  /\ CycleDone
  /\ Len(wire) = 2
  /\ wire[1].data = pst_data /\ wire[1].result = TransportFailure
  /\ wire[2].data = status_data /\ wire[2].result.success
  /\ status = None

(* C27: every poll cycle that has started finishes, by publishing a   *)
(* mapping or by reporting update-failed, given that each POST ends;  *)
(* a cycle waits for nothing but its own POST: the POST it is at can  *)
(* always be made.                                                    *)
C27_CycleFinishes ==
  /\ [](pc = "pst" => ENABLED PostPST)
  /\ [](pc = "status" => ENABLED PostStatus)
  /\ (pc # "idle") ~> (pc = "idle" /\ outcome \in {"published", "raised"})

(* both POSTs of a cycle ended in the transport (a timeout) and the *)
(* cycle finished                                                   *)
C27_Witness ==
  /\ CycleDone
  /\ pst = TransportFailure /\ st = TransportFailure
  /\ status = None /\ in_flight = 0

(* C23: each of open_tray, close_tray, toggle_tray, power_on, power_off, *)
(* play, pause, stop, next_track and previous_track makes exactly one    *)
(* send_command, with the token cCMD_RC_TRAYOPEN, TRAYCLOSE, OP_CL,      *)
(* POWERON, POWEROFF, PLAYBACK, PAUSE, STOP, SKIPFWD, SKIPREV in that    *)
(* order, makes no status query, and returns True exactly when the       *)
(* response code of that command is "00".                                *)
TokenOf ==
  [open_tray |-> <<"c", "C", "M", "D", "_", "R", "C", "_", "T", "R", "A", "Y", "O", "P", "E", "N">>,
   close_tray |-> <<"c", "C", "M", "D", "_", "R", "C", "_", "T", "R", "A", "Y", "C", "L", "O", "S", "E">>,
   toggle_tray |-> <<"c", "C", "M", "D", "_", "R", "C", "_", "O", "P", "_", "C", "L">>,
   power_on |-> <<"c", "C", "M", "D", "_", "R", "C", "_", "P", "O", "W", "E", "R", "O", "N">>,
   power_off |-> <<"c", "C", "M", "D", "_", "R", "C", "_", "P", "O", "W", "E", "R", "O", "F", "F">>,
   play |-> <<"c", "C", "M", "D", "_", "R", "C", "_", "P", "L", "A", "Y", "B", "A", "C", "K">>,
   pause |-> <<"c", "C", "M", "D", "_", "R", "C", "_", "P", "A", "U", "S", "E">>,
   stop |-> <<"c", "C", "M", "D", "_", "R", "C", "_", "S", "T", "O", "P">>,
   next_track |-> <<"c", "C", "M", "D", "_", "R", "C", "_", "S", "K", "I", "P", "F", "W", "D">>,
   previous_track |-> <<"c", "C", "M", "D", "_", "R", "C", "_", "S", "K", "I", "P", "R", "E", "V">>]

BodyOf(token) ==
  token \o <<".", "x", "=", "1", "0", "0", "&">> \o token
        \o <<".", "y", "=", "1", "0", "0">>

C23_OneCommandEach ==
  [][call' # call \/ wire' # wire =>
       /\ call' # None
       /\ Len(wire') = Len(wire) + 1
       /\ SubSeq(wire', 1, Len(wire)) = wire
       /\ Last(wire').caller = "send_command"
       /\ Last(wire').data = BodyOf(TokenOf[Val(call').fn])
       /\ Val(call').ret = (Last(wire').result.code = Some(<<"0", "0">>))
    ]_vars

(* toggle_tray sent cCMD_RC_OP_CL, the device answered FE, False was *)
(* returned                                                          *)
C23_Witness ==
  /\ Called("toggle_tray")
  /\ call_ret = FALSE
  /\ wire # <<>>
  /\ Last(wire).data = BodyOf(TokenOf["toggle_tray"])
  /\ Last(wire).result.code = Some(<<"F", "E">>)

(* C30: the media player's turn_off sends exactly one POWEROFF command  *)
(* when the entity's state is not OFF and nothing when it is, and       *)
(* leaves the state OFF; turn_on sends exactly one POWERON command when *)
(* the state is OFF and nothing otherwise (also when the state is None  *)
(* after a failed poll), and leaves the state IDLE; the command's       *)
(* result changes nothing.                                              *)
Sent(token) ==
  /\ Len(wire') = Len(wire) + 1
  /\ SubSeq(wire', 1, Len(wire)) = wire
  /\ Last(wire').caller = "send_command"
  /\ Last(wire').data = BodyOf(token)

C30_PowerCommands ==
  [][pc' = pc /\ entities_added =>
       /\ \/ /\ _attr_state' = Some("OFF")
             /\ IF _attr_state # Some("OFF")
                THEN Sent(<<"c", "C", "M", "D", "_", "R", "C", "_",
                            "P", "O", "W", "E", "R", "O", "F", "F">>)
                ELSE wire' = wire
          \/ /\ _attr_state' = Some("IDLE")
             /\ IF _attr_state = Some("OFF")
                THEN Sent(<<"c", "C", "M", "D", "_", "R", "C", "_",
                            "P", "O", "W", "E", "R", "O", "N">>)
                ELSE wire' = wire
       /\ UNCHANGED <<_attr_media_position, _attr_media_position_updated_at,
                      _attr_media_duration, cycle_vars>>
    ]_vars

(* after a failed poll handed the entity the unknown sentinel (state *)
(* None), turn_on left the state IDLE and no command was ever sent   *)
C30_Witness ==
  /\ entities_added
  /\ pc = "idle" /\ ~last_update_success
  /\ data # EmptyDict /\ Get(data, "state") = None
  /\ _attr_state = Some("IDLE")
  /\ CommandExchanges = <<>>
  /\ last_command = None

(* C25: the poll interval of the coordinator is an integer number of     *)
(* seconds in [1,60]: 5 when no option was ever set, otherwise the last  *)
(* value the options flow accepted; the flow rejects values outside      *)
(* [1,60]; an options change calls for a reload, and the coordinator     *)
(* the reload builds uses the new interval.                              *)
OptionSet == CONF_SCAN_INTERVAL \in DOMAIN options
Submitted == Val(Val(flow_result).user_input)
SubmittedInt ==
  /\ CONF_SCAN_INTERVAL \in DOMAIN Submitted
  /\ Val(Submitted[CONF_SCAN_INTERVAL]).type = "int"

C25_State ==
  /\ update_interval \in 1..60
  /\ ~OptionSet => update_interval = 5 /\ ~reload_pending
  /\ OptionSet =>
       /\ Val(options[CONF_SCAN_INTERVAL]) \in 1..60
       /\ ~reload_pending =>
            update_interval = Val(options[CONF_SCAN_INTERVAL])
  /\ flow_result # None /\ Val(flow_result).user_input # None
       /\ SubmittedInt =>
       LET n == Val(Submitted[CONF_SCAN_INTERVAL]).value IN
         /\ n \notin 1..60 => Val(flow_result).type = "invalid"
         /\ n \in 1..60 =>
              /\ Val(flow_result).type = "create_entry"
              /\ options = (CONF_SCAN_INTERVAL :> Some(n))

C25_Steps ==
  [][/\ options' # options =>
          /\ reload_pending'
          /\ Val(flow_result').type = "create_entry"
     /\ flow_result' # None /\ Val(flow_result').type = "invalid" =>
          options' = options
     /\ reload_pending /\ ~reload_pending' =>
          update_interval' = Val(options[CONF_SCAN_INTERVAL])
    ]_vars

C25_PollInterval == []C25_State /\ C25_Steps

(* the flow accepted 1, the reload made the coordinator poll every *)
(* second, and a later submission of 61 was rejected               *)
C25_Witness ==
  /\ options = (CONF_SCAN_INTERVAL :> Some(1))
  /\ update_interval = 1
  /\ ~reload_pending
  /\ flow_result # None
  /\ Val(flow_result).type = "invalid"
  /\ Val(flow_result).user_input =
       Some(CONF_SCAN_INTERVAL :> Some(Typed("int", 61)))

(* C31: every coordinator update delivered to the media player leaves    *)
(* its state, media_position, media_position_updated_at and              *)
(* media_duration equal to the values of the coordinator's mapping, None *)
(* for a key the mapping lacks, whatever turn_on or turn_off had left;   *)
(* the entity is constructed with state OFF.                             *)
Delivered ==
  /\ entities_added
  /\ pc # "idle" /\ pc' = "idle"
  /\ outcome' = "published" \/ last_update_success

RemoteSent ==
  SubSeq(wire, Val(remote_call).start + 1, Len(wire))

RemoteTotal == Val(remote_call).num_repeats * Len(Val(remote_call).command)

C32_RemoteSequence ==
  remote_call # None =>
    /\ Len(RemoteSent) <= RemoteTotal
    /\ \A k \in 1..Len(RemoteSent) :
         /\ RemoteSent[k].caller = "send_command"
         /\ RemoteSent[k].command =
              Some(Val(remote_call).command
                     [((k - 1) % Len(Val(remote_call).command)) + 1])
    /\ RemoteDone <=> Len(RemoteSent) = RemoteTotal

(* a call with a list of two different commands and two repeats is at *)
(* its third POST: the first command failed, the second followed, and *)
(* the list has begun again                                           *)
C32_Witness ==
  /\ remote_call # None
  /\ Val(remote_call).num_repeats = 2
  /\ Len(Val(remote_call).command) = 2
  /\ Len(RemoteSent) = 3
  /\ ~RemoteSent[1].result.success
  /\ RemoteSent[1].command # RemoteSent[2].command
  /\ RemoteSent[3].command = RemoteSent[1].command

(* C33: the speed select's select_option sends exactly one command, the *)
(* one of the chosen option (REW n: SEARCH_REVn, FF n: SEARCH_FWDn,      *)
(* Normal: PLAYBACK), when the option is one of the 11 listed, and sends *)
(* nothing for any other option string.                                  *)
SpeedDigits == {"1", "2", "3", "4", "5"}

ListedCommand(option) ==
  IF option = <<"N", "o", "r", "m", "a", "l">>
  THEN Some(<<"P", "L", "A", "Y", "B", "A", "C", "K">>)
  ELSE IF Len(option) = 5 /\ SubSeq(option, 1, 4) = <<"R", "E", "W", " ">>
          /\ option[5] \in SpeedDigits
  THEN Some(<<"S", "E", "A", "R", "C", "H", "_", "R", "E", "V", option[5]>>)
  ELSE IF Len(option) = 4 /\ SubSeq(option, 1, 3) = <<"F", "F", " ">>
          /\ option[4] \in SpeedDigits
  THEN Some(<<"S", "E", "A", "R", "C", "H", "_", "F", "W", "D", option[4]>>)
  ELSE None

C33_SelectOption ==
  [][LET expected == ListedCommand(Val(call').arg) IN
       /\ Val(call').fn = "select_option"
       /\ IF expected # None
          THEN /\ Sent(<<"c", "C", "M", "D", "_", "R", "C", "_">>
                         \o Val(expected))
               /\ Last(wire').command = expected
          ELSE wire' = wire
    ]_vars

(* FF 3 was selected and SEARCH_FWD3 sent, then an option in the wrong *)
(* case was given and nothing more was sent                            *)
C33_Witness ==
  /\ call = Returned("select_option", <<"n", "o", "r", "m", "a", "l">>, None)
  /\ Len(wire) = 1
  /\ wire[1].command =
       Some(<<"S", "E", "A", "R", "C", "H", "_", "F", "W", "D", "3">>)

(* C34: for each of the 11 speed options with multiplier value v, a    *)
(* published speed_multiplier of v makes the select's current_option   *)
(* that option and the speed sensor's value the same label; for every  *)
(* other published speed the select reports "Normal"; and each reports *)
(* None exactly when the mapping is empty or speed_multiplier is None. *)
OptionOfSpeed ==
     (0 :> <<"N", "o", "r", "m", "a", "l">>)
  @@ (10 :> <<"F", "F", " ", "1">>)
  @@ (11 :> <<"F", "F", " ", "2">>)
  @@ (12 :> <<"F", "F", " ", "3">>)
  @@ (13 :> <<"F", "F", " ", "4">>)
  @@ (14 :> <<"F", "F", " ", "5">>)
  @@ (20 :> <<"R", "E", "W", " ", "1">>)
  @@ (21 :> <<"R", "E", "W", " ", "2">>)
  @@ (22 :> <<"R", "E", "W", " ", "3">>)
  @@ (23 :> <<"R", "E", "W", " ", "4">>)
  @@ (24 :> <<"R", "E", "W", " ", "5">>)

NoSpeed(d) ==
  \/ d = EmptyDict
  \/ "speed_multiplier" \in DOMAIN d /\ d["speed_multiplier"] = None

C34_SpeedLabels ==
  Called("current_option") \/ Called("native_value") =>
    /\ (call_ret = None) = NoSpeed(call_arg)
    /\ ~NoSpeed(call_arg) /\ "speed_multiplier" \in DOMAIN call_arg =>
         LET v == Val(call_arg["speed_multiplier"]) IN
           /\ v \in DOMAIN OptionOfSpeed =>
                call_ret = Some(OptionOfSpeed[v])
           /\ v \notin DOMAIN OptionOfSpeed /\ Called("current_option") =>
                call_ret = Some(<<"N", "o", "r", "m", "a", "l">>)

(* the sensor was shown a speed of 24 and reports REW 5 *)
C34_Witness ==
  /\ Called("native_value")
  /\ call_arg = [speed_multiplier |-> Some(24)]
  /\ call_ret = Some(<<"R", "E", "W", " ", "5">>)

(* C36: get_status returns ("error", -1, -1) when the status is absent, *)
(* ("standby", 0, 0) when is_on is false whatever the playback state,    *)
(* and otherwise (s, position_seconds, 0) with s "stopped" for STOPPED,  *)
(* "paused" for PAUSED, "playing" for PLAYING, FAST_FORWARD, REWIND and  *)
(* SLOW_MOTION, and "off" for UNKNOWN; get_play_status returns the same. *)
CompatState(playback_state) ==
  CASE playback_state = "STOPPED" -> <<"s", "t", "o", "p", "p", "e", "d">>
    [] playback_state = "PAUSED" -> <<"p", "a", "u", "s", "e", "d">>
    [] playback_state \in {"PLAYING", "FAST_FORWARD", "REWIND",
                           "SLOW_MOTION"} -> <<"p", "l", "a", "y", "i", "n", "g">>
    [] playback_state = "UNKNOWN" -> <<"o", "f", "f">>

C36_GetStatus ==
  Called("get_status") \/ Called("get_play_status") =>
    IF call_arg = None
    THEN call_ret = <<<<"e", "r", "r", "o", "r">>, 0 - 1, 0 - 1>>
    ELSE IF ~Val(call_arg).is_on
    THEN call_ret = <<<<"s", "t", "a", "n", "d", "b", "y">>, 0, 0>>
    ELSE call_ret = <<CompatState(Val(call_arg).playback_state),
                      Val(call_arg).position_seconds, 0>>

(* get_play_status, the player rewinding at second 125 *)
C36_Witness ==
  /\ Called("get_play_status")
  /\ call_arg # None
  /\ Val(call_arg).is_on
  /\ Val(call_arg).playback_state = "REWIND"
  /\ call_ret = <<<<"p", "l", "a", "y", "i", "n", "g">>, 125, 0>>

(* C35: the configuration flow creates a config entry for a host only   *)
(* in a submission during which get_player_status for that host returned *)
(* a status; when it returned None the form is shown again with error    *)
(* cannot_connect, no entry is created, and the user can submit again.   *)
CannotConnect ==
  /\ user_result # None
  /\ Val(user_result).type = "form"
  /\ Val(user_result).errors = ("base" :> "cannot_connect")

C35_State ==
  /\ validate_info # None /\ ~Val(validate_info).raised
       /\ Val(validate_info).status = None => CannotConnect
  /\ CannotConnect =>
       \A h \in {<<"a">>, <<"b">>} :
         ENABLED async_step_user(Some("host" :> Some(h)))

C35_Steps ==
  [][/\ entries' # entries =>
          /\ validate_info' # None
          /\ ~Val(validate_info').raised
          /\ Val(validate_info').status # None
          /\ entries' = entries \cup {Val(validate_info').host}
          /\ Val(user_result').type = "create_entry"
          /\ Val(user_result').data =
               Some("host" :> Some(Val(validate_info').host))
     /\ validate_info' # None /\ Val(validate_info').status = None =>
          entries' = entries
    ]_vars

C35_EntryOnlyWithStatus == []C35_State /\ C35_Steps

(* host a answered nothing and the form shows cannot_connect, while an *)
(* entry for host b exists                                             *)
C35_Witness ==
  /\ CannotConnect
  /\ Val(validate_info).host = <<"a">>
  /\ flow_user_input = Some("host" :> Some(<<"a">>))
  /\ entries = {<<"b">>}

====
